---- MODULE Spec2Model ----
(***************************************************************************)
(* Bob's Corn backend: the purchase rate limiter and the transactional      *)
(* order-creation path of server/controllers/ordersController.ts, over the  *)
(* SQLite tables created by initDb (orders, order_items, users, products).  *)
(*                                                                          *)
(* Every purchase call runs as its own event-loop task.  A task only gives  *)
(* up control at an `await`, so each action below is one stretch of the     *)
(* handler between two awaits: the database statement that the await waits  *)
(* for, followed by the synchronous code that consumes its result.          *)
(*                                                                          *)
(* Time is the system clock in milliseconds.  SQLite's CURRENT_TIMESTAMP    *)
(* and datetime('now', ...) drop the fraction of the second; JavaScript's   *)
(* new Date() keeps the milliseconds.                                       *)
(***************************************************************************)
EXTENDS Integers, Sequences, FiniteSets, TLC

VARIABLES
    clock,        \* the system clock (milliseconds)
    env,          \* process.env: the two rate-limit variables, as raw text
    products,     \* table products
    users,        \* table users: user id -> row (the email and address columns)
    orders,       \* table orders (committed rows)
    order_items,  \* table order_items (committed rows)
    trx,          \* the open knex transaction and its uncommitted rows
    reqs,         \* purchase calls: slot -> the handler's locals and position
    reader,       \* one listOrders or getOrder call: its locals and position
    signups,      \* signup calls: slot -> the handler's locals and position
    seeder,       \* the seeding run (server/seed.ts main): its position
    created,      \* history: number of purchase calls answered 201
    insertedAt    \* history: order id -> the instant (ms) its header was inserted

vars == <<clock, env, products, users, orders, order_items, trx, reqs, reader, signups, seeder,
          created, insertedAt>>

-----------------------------------------------------------------------------
(* Bounds of the model *)

\* longest item list of a request
MaxItems == 2
\* largest quantity of one request line
MaxQty == 2
\* purchase calls are no longer submitted once this many orders are committed
MaxOrders == 2

\* authenticated users (requireAuth supplies req.user)
Users == {1, 2}
\* purchase calls that may be in flight at the same time
Reqs == {1, 2}
\* the instants of the clock that a behaviour visits (ms)
TimePoints == {0, 30000, 60000, 60500, 61000}

-----------------------------------------------------------------------------
(* Optional values: <<>> is null/undefined, <<x>> is the value x *)

None == <<>>
Some(x) == <<x>>

\* JSON.stringify of an address object, as stored in a TEXT column
Stringify(a) == <<"json", a>>
\* text in a TEXT column that is not JSON
Garbage == <<"text", "garbage">>
\* a JSON.parse that hands back whatever the text holds
ParseOrNull_Keep(text) == Some(text[2])

\* JSON.parse inside try/catch: the parsed value, or null when it throws
ParseOrNull(text) == IF text[1] = "json" THEN Some(text[2]) ELSE None

-----------------------------------------------------------------------------
(* Rate-limit configuration, ordersController.ts 168-172 *)

\* Number.parseInt(text, 10) on the texts the model uses; <<>> is NaN
ParseInt(text) ==
    CASE text = "1" -> Some(1)
      [] text = "2" -> Some(2)
      [] text = "3" -> Some(3)
      [] text = "60" -> Some(60)
      [] text = "0" -> Some(0)
      [] text = "-1" -> Some(0 - 1)
      [] text = "2.9" -> Some(2)
      [] text = "7up" -> Some(7)
      [] OTHER -> None

\* a guard that lets zero through
PositiveOr_NonNegative(parsed, default) ==
    IF parsed # None /\ parsed[1] >= 0 THEN parsed[1] ELSE default

\* Number.isFinite(parsed) && parsed > 0 ? parsed : default
PositiveOr(parsed, default) ==
    IF parsed # None /\ parsed[1] > 0 THEN parsed[1] ELSE default

limitPerProduct == PositiveOr(ParseInt(env.PURCHASE_RATE_LIMIT_PER_PRODUCT), 1)
windowSeconds == PositiveOr(ParseInt(env.PURCHASE_RATE_LIMIT_WINDOW_SECONDS), 60)

-----------------------------------------------------------------------------
(* Money, ordersController.ts 20-39.  An amount, the number 5.99 or the text   *)
(* '5.99', is held as its count of thousandths, 5990; a count of cents is an   *)
(* integer of its own.  The catalog of the model has no price that ends in     *)
(* half a cent, where the binary fraction decides which way Math.round goes.   *)

\* Math.round of a number held in thousandths: the nearest integer, halves up
Math_round(thousandths) == (thousandths + 500) \div 1000

\* Math.round(Number(value) * 100)
priceToCents(value) == Math_round(value * 100)

\* (cents / 100).toFixed(2)
centsToDecimalString(cents) == cents * 10

\* Math.round(Number(value) * 100) / 100
toNumber2(value) == Math_round(value * 100) * 10

-----------------------------------------------------------------------------
(* Request items *)

BySlug(s, q) == [hasSlug |-> TRUE, slug |-> s, hasProductId |-> FALSE, productId |-> 0, quantity |-> q]
ById(n, q) == [hasSlug |-> FALSE, slug |-> "", hasProductId |-> TRUE, productId |-> n, quantity |-> q]
NoRef(q) == [hasSlug |-> FALSE, slug |-> "", hasProductId |-> FALSE, productId |-> 0, quantity |-> q]

\* the items a request line is drawn from: both ways of naming product 1, a
\* second product, a reference nothing resolves, and the two malformed lines
ItemChoices ==
    UNION {{BySlug("farm-fresh-yellow-kernels", q), ById(1, q),
            BySlug("white-butterfly-popcorn", q), BySlug("ghost", q)} : q \in 1..MaxQty}
    \cup {BySlug("farm-fresh-yellow-kernels", 0), NoRef(1)}

ItemLists == UNION {[1..n -> ItemChoices] : n \in 0..MaxItems}

Addresses == {"addrA"}

\* the bodies of the address updates (PUT /api/account/address): objects, as
\* the route's validators ask (routes/account.js 9-17)
ProfileAddresses == {"addrB"}

\* saveAddressText is String(saveAddress), the text the validators read, and
\* 'undefined' when the body has no such member; saveAddress is the truth
\* value that the handler's `saveAddress && ...` sees
Body(userId, items, shippingAddress, saveAddress) ==
    [userId |-> userId, items |-> items, shippingAddress |-> shippingAddress,
     saveAddress |-> saveAddress,
     saveAddressText |-> IF saveAddress THEN "true" ELSE "false"]

\* requests that vary the item list and carry no address
ItemBodies == {Body(u, items, None, FALSE) : u \in Users, items \in ItemLists}

\* requests that vary the address and the saveAddress flag, for one line
AddressBodies ==
    {Body(u, <<BySlug("farm-fresh-yellow-kernels", 1)>>, a, save) :
        u \in Users, a \in {None} \cup {Some(x) : x \in Addresses}, save \in BOOLEAN}

\* a shippingAddress that is a JSON string, not an object
StreetText == "221B Baker Street"

\* requests whose address members are of the wrong type: shippingAddress a
\* string, saveAddress the string 'yes', over good and bad item lists; and
\* requests whose saveAddress is the number 1 or the string 'false', which
\* `saveAddress && ...` reads as true like any other non-empty string
MalformedBodies ==
    UNION {{Body(1, items, Some(StreetText), FALSE),
            [Body(1, items, None, TRUE) EXCEPT !.saveAddressText = "yes"]} :
              items \in {<<BySlug("farm-fresh-yellow-kernels", 1)>>, <<>>, <<NoRef(1)>>}}
    \cup {[Body(1, <<BySlug("farm-fresh-yellow-kernels", 1)>>, Some(a), TRUE)
              EXCEPT !.saveAddressText = t] : a \in Addresses, t \in {"1", "false"}}

Bodies == ItemBodies \cup AddressBodies \cup MalformedBodies

\* the requests of the calls that run concurrently: user 1 asks for product 1
\* under both of its names, for product 2, and once with an address to save;
\* user 2 asks for product 1
RaceBodies ==
    {Body(1, <<it>>, None, FALSE) :
        it \in {BySlug("farm-fresh-yellow-kernels", 1), ById(1, 1),
                BySlug("white-butterfly-popcorn", 1)}}
    \cup {Body(2, <<BySlug("farm-fresh-yellow-kernels", 1)>>, None, FALSE)}
    \cup {Body(1, <<BySlug("farm-fresh-yellow-kernels", 1)>>, Some(a), TRUE) : a \in Addresses}

-----------------------------------------------------------------------------
(* Small helpers *)

RECURSIVE SumQuantity(_)
\* SUM(quantity) over a set of order_items rows
SumQuantity(rows) ==
    IF rows = {} THEN 0
    ELSE LET x == CHOOSE y \in rows : TRUE
         IN  x.quantity + SumQuantity(rows \ {x})

MaxId(rows) ==
    IF rows = {} THEN 0 ELSE CHOOSE n \in {x.id : x \in rows} : \A x \in rows : x.id <= n

\* the id an AUTOINCREMENT column gives the next inserted row
NextId(rows) == MaxId(rows) + 1

-----------------------------------------------------------------------------
(* Responses.  One record shape for all of them. *)

Response(status, error) ==
    [status |-> status, error |-> error, ref |-> None, limit |-> 0, windowSeconds |-> 0,
     product |-> None, order |-> None]

\* ordersController.ts 89-92, 102-117
InvalidRequest(error) == Response(400, error)
\* ordersController.ts 146-149
ProductNotFound(identifier) == [Response(400, "Product not found") EXCEPT !.ref = Some(identifier)]
\* ordersController.ts 208-218
RateLimitExceeded(limit, window, pid, slug, wantQty, prevQty) ==
    [Response(429, "Rate limit exceeded") EXCEPT
        !.limit = limit, !.windowSeconds = window,
        !.product = Some([id |-> pid, slug |-> slug,
                          requestedQuantity |-> wantQty,
                          recentPurchasedQuantity |-> prevQty])]
\* index.ts 189-198: the global error handler
ServerError == Response(500, "Server error")

-----------------------------------------------------------------------------
(* The locals of one purchase call *)

\* `now` is not a local of the handler: it is the instant (ms) at which the
\* windowed query of a call answered 429 ran, kept for the properties
IdleReq ==
    [pc |-> "idle", userId |-> 0, items |-> <<>>, shippingAddress |-> None,
     saveAddress |-> FALSE, saveAddressText |-> "undefined", orderItems |-> <<>>, now |-> 0, shippingAddressToUse |-> None,
     total |-> 0, orderId |-> 0, res |-> None]

\* the call has answered; what it held stays readable until the slot is reused
Answered(req, response) == [req EXCEPT !.pc = "done", !.res = Some(response)]

-----------------------------------------------------------------------------
(* Validation: the route's purchaseValidators (routes/products.js 73-107) run  *)
(* first, then the controller's own checks (ordersController.ts 101-118).      *)

\* express-validator's isObject: a JSON object, not a string, array or null
isObject(value) == value \in Addresses \cup ProfileAddresses

\* express-validator's isBoolean, on the text of the member
isBoolean(text) == text \in {"true", "false", "1", "0"}

\* messages of the validators of the items (74-92)
ItemValidators(body) ==
    {"items must be a non-empty array" : i \in {1} \cap {IF Len(body.items) = 0 THEN 1 ELSE 0}}
    \cup {"quantity must be >= 1" : i \in {j \in 1..Len(body.items) : body.items[j].quantity < 1}}
    \cup {"each item must include slug or productId" :
            i \in {j \in 1..Len(body.items) :
                     ~body.items[j].hasSlug /\ ~body.items[j].hasProductId}}

\* messages of the validators of the two optional members (94-106)
AddressValidators(body) ==
    {"shippingAddress must be an object" :
        i \in {1} \cap {IF body.shippingAddress # None /\ ~isObject(body.shippingAddress[1])
                        THEN 1 ELSE 0}}
    \cup {"saveAddress must be boolean" :
            i \in {1} \cap {IF body.saveAddressText # "undefined"
                               /\ ~isBoolean(body.saveAddressText)
                            THEN 1 ELSE 0}}

\* the validators of the items alone
purchaseValidators_ItemsOnly(body) == ItemValidators(body)

\* messages of express-validator for the body
purchaseValidators(body) == ItemValidators(body) \cup AddressValidators(body)

\* the controller's checks, in the order of the code; None when they pass
ItemsError(items) ==
    IF Len(items) = 0 THEN Some("Items required")
    ELSE LET bad == {i \in 1..Len(items) :
                       \/ ~items[i].hasSlug /\ ~items[i].hasProductId
                       \/ items[i].quantity <= 0}
         IN  IF bad = {} THEN None
             ELSE LET i == CHOOSE j \in bad : \A k \in bad : j <= k
                  IN  IF ~items[i].hasSlug /\ ~items[i].hasProductId
                      THEN Some("Item must include slug or productId")
                      ELSE Some("Item has invalid quantity")

ValidationFailure(body) ==
    IF purchaseValidators(body) # {} THEN Some(InvalidRequest("validation errors"))
    ELSE IF ItemsError(body.items) # None THEN Some(InvalidRequest(ItemsError(body.items)[1]))
    ELSE None

-----------------------------------------------------------------------------
(* Product resolution, ordersController.ts 120-160 *)

\* the batch lookup: whereIn('slug', slugs) orWhereIn('id', ids)
FetchProducts(items) ==
    {p \in products :
        \/ \E i \in 1..Len(items) : items[i].hasSlug /\ items[i].slug = p.slug
        \/ \E i \in 1..Len(items) : items[i].hasProductId /\ items[i].productId = p.id}

\* bySlug.get / byId.get for one item: the rows found (none or one)
LookupRow(it, fetched) ==
    IF it.hasSlug /\ it.slug # ""
    THEN {p \in fetched : p.slug = it.slug}
    ELSE {p \in fetched : p.id = it.productId}

Identifier(it) ==
    IF it.hasSlug /\ it.slug # "" THEN <<"slug", it.slug>> ELSE <<"productId", it.productId>>

\* a lookup that is made for the first item only
Unresolved_FirstItem(items, fetched) ==
    {i \in 1..Len(items) : i = 1 /\ LookupRow(items[i], fetched) = {}}

\* a product check that looks at the last line only
Unresolved_LastItem(items, fetched) ==
    {i \in 1..Len(items) : i = Len(items) /\ LookupRow(items[i], fetched) = {}}

\* indexes of the items no product row was found for
Unresolved(items, fetched) == {i \in 1..Len(items) : LookupRow(items[i], fetched) = {}}

\* the snapshot of the product row taken for one item
Snapshot(it, row) ==
    [product_id |-> row.id, slug |-> row.slug, title |-> row.title,
     price |-> centsToDecimalString(priceToCents(row.price)), quantity |-> it.quantity]

\* orderItems: one snapshot per item, in the order of the request (the loop
\* returns at the first item without a row, so every item has one)
BuildOrderItems(items, fetched) ==
    LET found == SelectSeq(items, LAMBDA it : LookupRow(it, fetched) # {})
    IN  [i \in 1..Len(found) |->
            Snapshot(found[i], CHOOSE p \in LookupRow(found[i], fetched) : TRUE)]

-----------------------------------------------------------------------------
(* Requested quantity per product, ordersController.ts 174-179 *)

\* a map whose entry is overwritten by each line of the product, not added to
RequestedQty_LastLine(orderItems, pid) ==
    LET at == {i \in 1..Len(orderItems) : orderItems[i].product_id = pid}
    IN  IF at = {} THEN 0
        ELSE orderItems[CHOOSE i \in at : \A j \in at : j <= i].quantity

RECURSIVE RequestedQty(_, _)
\* requestedQtyByProductId.get(pid)
RequestedQty(orderItems, pid) ==
    IF orderItems = <<>> THEN 0
    ELSE (IF Head(orderItems).product_id = pid THEN Head(orderItems).quantity ELSE 0)
         + RequestedQty(Tail(orderItems), pid)

RECURSIVE RequestedKeys(_)
\* requestedQtyByProductId.keys(): the product ids in order of first insertion
RequestedKeys(orderItems) ==
    IF orderItems = <<>> THEN <<>>
    ELSE LET front == RequestedKeys(SubSeq(orderItems, 1, Len(orderItems) - 1))
             pid == orderItems[Len(orderItems)].product_id
         IN  IF \E i \in 1..Len(front) : front[i] = pid THEN front ELSE Append(front, pid)

-----------------------------------------------------------------------------
(* The windowed query and the check, ordersController.ts 187-221 *)

\* CURRENT_TIMESTAMP and datetime('now'): the clock in whole seconds
CURRENT_TIMESTAMP == clock \div 1000

\* two filters the code does not use: one without the lower bound, one that
\* drops the row exactly W seconds old
InWindow_Forever(created_at, now, window) == created_at <= now

InWindow_Exclusive(created_at, now, window) == created_at > now - window

\* a window twice as long as configured
InWindow_Doubled(created_at, now, window) == created_at >= now - 2 * window

\* o.created_at >= datetime('now', '-W seconds')
InWindow(created_at, now, window) == created_at >= now - window

\* rows of any product of the user
RecentRows_AnyProduct(userId, pid, now, window) ==
    {oi \in order_items :
        \E o \in orders :
              /\ o.id = oi.order_id
              /\ o.user_id = userId
              /\ InWindow(o.created_at, now, window)}

\* the rows the join selects for one user and one product
RecentRows(userId, pid, now, window) ==
    {oi \in order_items :
        /\ oi.product_id = pid
        /\ \E o \in orders :
              /\ o.id = oi.order_id
              /\ o.user_id = userId
              /\ InWindow(o.created_at, now, window)}

\* the sum over the rows of every user
PurchasedInWindow_AnyUser(userId, pid, now, window) ==
    SumQuantity({oi \in order_items :
        /\ oi.product_id = pid
        /\ \E o \in orders : o.id = oi.order_id /\ InWindow(o.created_at, now, window)})

\* purchasedInWindow.get(pid) || 0
PurchasedInWindow(userId, pid, now, window) == SumQuantity(RecentRows(userId, pid, now, window))

\* a check that rejects the unit that reaches the limit
Exceeds_Reaching(prevQty, wantQty, limit) == prevQty + wantQty >= limit

\* prevQty + wantQty > limitPerProduct
Exceeds(prevQty, wantQty, limit) == prevQty + wantQty > limit

\* a check that looks at the first requested product only
Offending_FirstOnly(userId, orderItems, now) ==
    LET keys == RequestedKeys(orderItems)
    IN  {k \in 1..Len(keys) :
            /\ k = 1
            /\ Exceeds(PurchasedInWindow(userId, keys[k], now, windowSeconds),
                       RequestedQty(orderItems, keys[k]), limitPerProduct)}

\* positions in RequestedKeys of the products over the limit
Offending(userId, orderItems, now) ==
    LET keys == RequestedKeys(orderItems)
    IN  {k \in 1..Len(keys) :
            Exceeds(PurchasedInWindow(userId, keys[k], now, windowSeconds),
                    RequestedQty(orderItems, keys[k]), limitPerProduct)}

\* the 429 for the first offending product of the loop
RateLimitResponse(userId, orderItems, now) ==
    LET keys == RequestedKeys(orderItems)
        bad == Offending(userId, orderItems, now)
        k == CHOOSE j \in bad : \A m \in bad : j <= m
        pid == keys[k]
        first == CHOOSE i \in 1..Len(orderItems) :
                    /\ orderItems[i].product_id = pid
                    /\ \A j \in 1..Len(orderItems) : orderItems[j].product_id = pid => i <= j
    IN  RateLimitExceeded(limitPerProduct, windowSeconds, pid, orderItems[first].slug,
                          RequestedQty(orderItems, pid),
                          PurchasedInWindow(userId, pid, now, windowSeconds))

-----------------------------------------------------------------------------
(* Total, ordersController.ts 223-225 *)

RECURSIVE TotalCents_UnitPrices(_)
\* the unit prices of the lines added up, whatever their quantities
TotalCents_UnitPrices(orderItems) ==
    IF orderItems = <<>> THEN 0
    ELSE priceToCents(Head(orderItems).price) + TotalCents_UnitPrices(Tail(orderItems))

RECURSIVE TotalCents(_)
TotalCents(orderItems) ==
    IF orderItems = <<>> THEN 0
    ELSE priceToCents(Head(orderItems).price) * Head(orderItems).quantity
         + TotalCents(Tail(orderItems))

-----------------------------------------------------------------------------
(* The purchase handler, ordersController.ts 82-284 *)

\* ordersController.ts 239-242: after the address is known, the next await is
\* the profile update when saveAddress is set and there is an address, else
\* the transaction
WithAddress(req, address) ==
    [req EXCEPT !.shippingAddressToUse = address,
                !.pc = IF req.saveAddress /\ address # None THEN "save" ELSE "trx"]

\* A call arrives.  The synchronous prefix of the handler runs: validation
\* (89-118), then the product query is issued (125).
Submit(r, body) ==
    /\ reqs[r].pc = "idle"
    /\ Cardinality(orders) < MaxOrders
    /\ reqs' = [reqs EXCEPT ![r] =
                  LET req == [IdleReq EXCEPT !.userId = body.userId,
                                             !.items = body.items,
                                             !.shippingAddress = body.shippingAddress,
                                             !.saveAddress = body.saveAddress,
                                             !.saveAddressText = body.saveAddressText]
                  IN  IF ValidationFailure(body) # None
                      THEN Answered(req, ValidationFailure(body)[1])
                      ELSE [req EXCEPT !.pc = "resolve"]]
    /\ UNCHANGED <<signups, seeder, clock, env, products, users, orders, order_items, trx, reader, created, insertedAt>>

\* The product query answers (125-130); the items are resolved and snapshotted
\* (133-160), the requested quantities added up (176-179) and the windowed
\* query issued (187).
Resolve(r) ==
    /\ reqs[r].pc = "resolve"
    /\ LET req == reqs[r]
           fetched == FetchProducts(req.items)
           missing == Unresolved(req.items, fetched)
       IN  reqs' = [reqs EXCEPT ![r] =
                      IF missing # {}
                      THEN Answered(req,
                             ProductNotFound(Identifier(
                               req.items[CHOOSE i \in missing : \A j \in missing : i <= j])))
                      ELSE [req EXCEPT !.pc = "ratelimit",
                                       !.orderItems = BuildOrderItems(req.items, fetched)]]
    /\ UNCHANGED <<signups, seeder, clock, env, products, users, orders, order_items, trx, reader, created, insertedAt>>

\* The windowed query answers (187-194) and the limits are checked (197-221).
\* A call that passes computes its total (224-225) and settles the address: an
\* address of the request is used as it is (229-230), otherwise the user's row
\* is queried (233).
RateLimit(r) ==
    /\ reqs[r].pc = "ratelimit"
    /\ LET req == reqs[r]
       IN  reqs' = [reqs EXCEPT ![r] =
                      IF Offending(req.userId, req.orderItems, CURRENT_TIMESTAMP) # {}
                      THEN Answered([req EXCEPT !.now = clock],
                                    RateLimitResponse(req.userId, req.orderItems,
                                                      CURRENT_TIMESTAMP))
                      ELSE LET priced == [req EXCEPT
                                            !.total = centsToDecimalString(TotalCents(req.orderItems))]
                           IN  IF req.shippingAddress # None
                               THEN WithAddress(priced, req.shippingAddress)
                               ELSE [priced EXCEPT !.pc = "address"]]
    /\ UNCHANGED <<signups, seeder, clock, env, products, users, orders, order_items, trx, reader, created, insertedAt>>

\* The user's row answers (233-236): the saved address, parsed, or none.
FetchAddress(r) ==
    /\ reqs[r].pc = "address"
    /\ LET req == reqs[r]
           saved == IF req.userId \in DOMAIN users THEN users[req.userId].address ELSE None
       IN  reqs' = [reqs EXCEPT ![r] =
                      WithAddress(req, IF saved # None THEN ParseOrNull(saved) ELSE None)]
    /\ UNCHANGED <<signups, seeder, clock, env, products, users, orders, order_items, trx, reader, created, insertedAt>>

\* knex('users').where({ id }).update({ address: JSON.stringify(address) }):
\* the row of the id, if there is one, takes the text
UpdateAddress(table, id, address) ==
    IF id \in DOMAIN table THEN [table EXCEPT ![id].address = Stringify(address)] ELSE table

\* The profile update (240-242).
SaveAddress(r) ==
    /\ reqs[r].pc = "save"
    /\ users' = UpdateAddress(users, reqs[r].userId, reqs[r].shippingAddressToUse[1])
    /\ reqs' = [reqs EXCEPT ![r].pc = "trx"]
    /\ UNCHANGED <<signups, seeder, clock, env, products, orders, order_items, trx, reader, created, insertedAt>>

\* an insert made through `knex`, outside the transaction: seen at once
InsertInTrx_Visible(table, rows) == table \cup rows

\* what other statements find in a table after rows were inserted into it
\* through the transaction handle `trx`: nothing new before the commit
InsertInTrx(table, rows) == table

\* The transaction begins and inserts the order header (246-253).  created_at
\* takes the column default, CURRENT_TIMESTAMP (initDb, part_005 207).  The
\* rows of an open transaction are not in the tables other statements read.
TrxInsertOrder(r) ==
    /\ reqs[r].pc = "trx"
    /\ trx = None
    /\ reqs[r].userId \in DOMAIN users     \* orders.user_id references users.id
    /\ LET req == reqs[r]
           oid == NextId(orders)
           row == [id |-> oid, user_id |-> req.userId, total |-> req.total,
                   shipping_address |->
                       IF req.shippingAddressToUse # None
                       THEN Stringify(req.shippingAddressToUse[1]) ELSE None,
                   status |-> "paid", created_at |-> CURRENT_TIMESTAMP]
       IN  /\ trx' = Some([owner |-> r, orders |-> {row}, order_items |-> {}, at |-> clock])
           /\ orders' = InsertInTrx(orders, {row})
           /\ reqs' = [reqs EXCEPT ![r].pc = "trxItems", ![r].orderId = oid]
    /\ UNCHANGED <<signups, seeder, clock, env, products, users, order_items, reader, created, insertedAt>>

\* The lines are inserted with the header's id (256-257).
TrxInsertItems(r) ==
    /\ reqs[r].pc = "trxItems"
    \* order_items.product_id references products.id
    /\ \A i \in 1..Len(reqs[r].orderItems) :
          reqs[r].orderItems[i].product_id \in {p.id : p \in products}
    /\ LET req == reqs[r]
           base == MaxId(order_items)
           rows == {[id |-> base + i, order_id |-> req.orderId,
                     product_id |-> req.orderItems[i].product_id,
                     slug |-> req.orderItems[i].slug, title |-> req.orderItems[i].title,
                     price |-> req.orderItems[i].price,
                     quantity |-> req.orderItems[i].quantity] : i \in 1..Len(req.orderItems)}
       IN  /\ trx' = Some([trx[1] EXCEPT !.order_items = rows])
           /\ order_items' = InsertInTrx(order_items, rows)
    /\ reqs' = [reqs EXCEPT ![r].pc = "trxCommit"]
    /\ UNCHANGED <<signups, seeder, clock, env, products, users, orders, reader, created, insertedAt>>

\* a commit that loses the rows
Commit_Lost(table, uncommitted) == table

\* a table after the commit of a transaction that inserted `uncommitted`
Commit(table, uncommitted) == table \cup uncommitted

\* The callback returns and knex commits (259-260): header and lines appear
\* together.
TrxCommit(r) ==
    /\ reqs[r].pc = "trxCommit"
    /\ orders' = Commit(orders, trx[1].orders)
    /\ order_items' = Commit(order_items, trx[1].order_items)
    /\ insertedAt' = [insertedAt EXCEPT ![reqs[r].orderId] = trx[1].at]
    /\ trx' = None
    /\ reqs' = [reqs EXCEPT ![r].pc = "respond"]
    /\ UNCHANGED <<signups, seeder, clock, env, products, users, reader, created>>

\* a failure after which the inserted rows stay
Rollback_Keep(table, uncommitted) == table \cup uncommitted

\* a table after the rollback of a transaction that inserted `uncommitted`
Rollback(table, uncommitted) == table \ uncommitted

\* A statement of the call is rejected by the storage layer.  The handler's
\* catch passes the error on (281-283) and the global error handler answers
\* 500 (index.ts 189-198); knex rolls an open transaction back.
StorageFails(r) ==
    /\ reqs[r].pc \in {"resolve", "ratelimit", "address", "save", "trx", "trxItems", "trxCommit"}
    /\ IF reqs[r].pc \in {"trxItems", "trxCommit"}
       THEN /\ orders' = Rollback(orders, trx[1].orders)
            /\ order_items' = Rollback(order_items, trx[1].order_items)
            /\ trx' = None
       ELSE UNCHANGED <<orders, order_items, trx>>
    /\ reqs' = [reqs EXCEPT ![r] = Answered(reqs[r], ServerError)]
    /\ UNCHANGED <<signups, seeder, clock, env, products, users, reader, created, insertedAt>>

\* the 201 and its OrderResponse (263-280)
Created(req, date) ==
    [Response(201, "") EXCEPT !.order =
        Some([id |-> req.orderId, userId |-> req.userId, total |-> toNumber2(req.total),
              status |-> "paid", createdAt |-> date,
              shippingAddress |-> req.shippingAddressToUse,
              items |-> [i \in 1..Len(req.orderItems) |->
                           [productId |-> req.orderItems[i].product_id,
                            slug |-> req.orderItems[i].slug,
                            title |-> req.orderItems[i].title,
                            price |-> toNumber2(req.orderItems[i].price),
                            quantity |-> req.orderItems[i].quantity]]])]

\* The response is built and sent (263-280); createdAt is new Date().
Respond(r) ==
    /\ reqs[r].pc = "respond"
    /\ LET req == reqs[r]
       IN  reqs' = [reqs EXCEPT ![r] = Answered(req, Created(req, clock))]
    /\ created' = created + 1
    /\ UNCHANGED <<signups, seeder, clock, env, products, users, orders, order_items, trx, reader, insertedAt>>

\* The answered call is over; its slot takes the next call.
Forget(r) ==
    /\ reqs[r].pc = "done"
    /\ reqs' = [reqs EXCEPT ![r] = IdleReq]
    /\ UNCHANGED <<signups, seeder, clock, env, products, users, orders, order_items, trx, reader, created, insertedAt>>

-----------------------------------------------------------------------------
(* listOrders and getOrder, ordersController.ts 298-403 *)

RECURSIVE SortById(_)
\* the rows of a set in ascending id order
SortById(rows) ==
    IF rows = {} THEN <<>>
    ELSE LET x == CHOOSE y \in rows : \A z \in rows : y.id <= z.id
         IN  <<x>> \o SortById(rows \ {x})

Reverse(seq) == [i \in 1..Len(seq) |-> seq[Len(seq) + 1 - i]]

\* a line answered with the product's title and price of the moment
ItemResponse_FromCatalog(it) ==
    LET p == CHOOSE x \in products : x.id = it.product_id
    IN  [productId |-> it.product_id, slug |-> p.slug, title |-> p.title,
         price |-> toNumber2(p.price), quantity |-> it.quantity]

\* one line of an OrderResponse (332-338, 390-396)
ItemResponse(it) ==
    [productId |-> it.product_id, slug |-> it.slug, title |-> it.title,
     price |-> toNumber2(it.price), quantity |-> it.quantity]

\* minutes that the zone of the server process lies behind UTC
\* (Date.prototype.getTimezoneOffset), from the TZ variable of the process
getTimezoneOffset == IF env.TZ = "America/Bogota" THEN 300 ELSE 0

\* new Date(created_at).toISOString(), as the instant in ms: created_at is the
\* text 'YYYY-MM-DD HH:MM:SS' that SQLite wrote in UTC, and Date reads a text
\* without a zone as the local time of the server
DateParse(created_at) == created_at * 1000 + getTimezoneOffset * 60000

\* the OrderResponse of an orders row and the order_items rows read for it
\* (322-339, 380-397)
OrderResponseOf(o, items) ==
    [id |-> o.id, userId |-> o.user_id, total |-> toNumber2(o.total), status |-> o.status,
     createdAt |-> DateParse(o.created_at),
     shippingAddress |-> IF o.shipping_address # None THEN ParseOrNull(o.shipping_address) ELSE None,
     items |-> LET mine == SortById({it \in items : it.order_id = o.id})
               IN  [i \in 1..Len(mine) |-> ItemResponse(mine[i])]]

IdleReader ==
    [pc |-> "idle", op |-> "", userId |-> 0, orderId |-> 0, rows |-> <<>>, status |-> 0,
     error |-> "", result |-> <<>>]

\* a call of the reader that the query of its first await has answered
Reading(op, userId, orderId, pc, rows) ==
    [IdleReader EXCEPT !.pc = pc, !.op = op, !.userId = userId, !.orderId = orderId,
                       !.rows = rows]

\* res.json(result), status 200
ReaderAnswered(call, result) ==
    [call EXCEPT !.pc = "done", !.rows = <<>>, !.status = 200, !.result = result]

\* res.status(404).json({ error: 'Order not found' }) (376)
OrderNotFound(call) ==
    [call EXCEPT !.pc = "done", !.rows = <<>>, !.status = 404, !.error = "Order not found"]

\* the orders of every user in descending id order
UserOrders_Everyone(u) == Reverse(SortById(orders))

\* knex('orders').where({ user_id: userId }).orderBy('id', 'desc') (308-309)
UserOrders(u) == Reverse(SortById({o \in orders : o.user_id = u}))

\* the order of the id, whoever owns it
FindOrder_AnyUser(u, orderId) == {o \in orders : o.id = orderId}

\* knex('orders').where({ id: orderId, user_id: userId }).first() (374)
FindOrder(u, orderId) == {o \in orders : o.id = orderId /\ o.user_id = u}

\* listOrders: the orders query (308-309), newest id first
ListOrders(u) ==
    /\ reader.pc \in {"idle", "done"}
    /\ LET mine == UserOrders(u)
           call == Reading("listOrders", u, 0, "listItems", mine)
       IN  reader' = IF mine = <<>> THEN ReaderAnswered(call, <<>>) ELSE call
    /\ UNCHANGED <<signups, seeder, clock, env, products, users, orders, order_items, trx, reqs, created, insertedAt>>

\* listOrders: the order_items query answers and the result is built (312-341)
ListOrdersItems ==
    /\ reader.pc = "listItems"
    /\ LET ids == {reader.rows[i].id : i \in 1..Len(reader.rows)}
           items == {it \in order_items : it.order_id \in ids}
       IN  reader' = ReaderAnswered(reader,
                        [i \in 1..Len(reader.rows) |-> OrderResponseOf(reader.rows[i], items)])
    /\ UNCHANGED <<signups, seeder, clock, env, products, users, orders, order_items, trx, reqs, created, insertedAt>>

\* getOrder: the orders query for the id and the caller (374-375)
GetOrder(u, orderId) ==
    /\ reader.pc \in {"idle", "done"}
    /\ LET found == FindOrder(u, orderId)
           call == Reading("getOrder", u, orderId, "getItems", SortById(found))
       IN  reader' = IF found = {} THEN OrderNotFound(call) ELSE call
    /\ UNCHANGED <<signups, seeder, clock, env, products, users, orders, order_items, trx, reqs, created, insertedAt>>

\* getOrder: the order_items query answers and the result is built (378-399)
GetOrderItems ==
    /\ reader.pc = "getItems"
    /\ LET order == reader.rows[1]
           items == {it \in order_items : it.order_id = order.id}
       IN  reader' = ReaderAnswered(reader, <<OrderResponseOf(order, items)>>)
    /\ UNCHANGED <<signups, seeder, clock, env, products, users, orders, order_items, trx, reqs, created, insertedAt>>

\* order ids a getOrder call asks for
OrderIds == 1..(MaxOrders + 1)

Read ==
    \/ \E u \in Users : ListOrders(u)
    \/ ListOrdersItems
    \/ \E u \in Users, i \in OrderIds : GetOrder(u, i)
    \/ GetOrderItems

\* Time passes.
Tick ==
    /\ \E t \in TimePoints : t > clock /\ clock' = t
    /\ UNCHANGED <<signups, seeder, env, products, users, orders, order_items, trx, reqs, reader, created, insertedAt>>

-----------------------------------------------------------------------------
(* The catalog of initDb's first run, two rows of it (productsSeed.ts) *)

seedProducts ==
    {[id |-> 1, slug |-> "farm-fresh-yellow-kernels", title |-> "Farm-fresh Yellow Kernels", price |-> 5990],
     [id |-> 2, slug |-> "white-butterfly-popcorn", title |-> "White Butterfly Popcorn", price |-> 6490]}

\* process.env without the two variables: `?? ''` reads them as ''
DefaultEnv ==
    [PURCHASE_RATE_LIMIT_PER_PRODUCT |-> "", PURCHASE_RATE_LIMIT_WINDOW_SECONDS |-> "",
     TZ |-> "UTC"]

-----------------------------------------------------------------------------
(* The seeder's catalog write, seed.ts 240-261 *)

\* insert(row).onConflict('slug').merge(): the row of the slug takes the new
\* columns and keeps its id; a new slug gets the next id
MergeRow(catalog, row) ==
    IF \E p \in catalog : p.slug = row.slug
    THEN {IF p.slug = row.slug THEN [p EXCEPT !.title = row.title, !.price = row.price] ELSE p :
            p \in catalog}
    ELSE catalog \cup {[id |-> MaxId(catalog) + 1, slug |-> row.slug, title |-> row.title,
                        price |-> row.price]}

RECURSIVE MergeRows(_, _)
MergeRows(catalog, rows) ==
    IF rows = <<>> THEN catalog ELSE MergeRows(MergeRow(catalog, Head(rows)), Tail(rows))

\* the batches of a seeding run: new titles and prices for slugs of the catalog
Batches ==
    {<<[slug |-> "farm-fresh-yellow-kernels", title |-> "Sun-dried Yellow Kernels", price |-> 100]>>,
     <<[slug |-> "white-butterfly-popcorn", title |-> "White Butterfly Popcorn", price |-> 200]>>}

upsertProducts(rows) ==
    /\ rows # <<>>
    /\ products' = MergeRows(products, rows)
    /\ products' # products
    /\ UNCHANGED <<signups, seeder, clock, env, users, orders, order_items, trx, reqs, reader, created, insertedAt>>

\* PURCHASE_RATE_LIMIT_PER_PRODUCT=3 in the environment of the server
EnvOfThree == [DefaultEnv EXCEPT !.PURCHASE_RATE_LIMIT_PER_PRODUCT = "3"]

\* requests of one or two lines, of one or two units, one of them with an
\* address to save
CatalogBodies ==
    {Body(1, items, None, FALSE) :
        items \in {<<BySlug("farm-fresh-yellow-kernels", 1), BySlug("white-butterfly-popcorn", 1)>>,
                   <<ById(1, 2), BySlug("white-butterfly-popcorn", 1)>>,
                   <<ById(1, 1), BySlug("farm-fresh-yellow-kernels", 1)>>}}
    \cup {Body(2, <<BySlug("white-butterfly-popcorn", 2)>>, Some(a), TRUE) : a \in Addresses}

\* the accounts that hold the tokens of the calls: signed up before, with no
\* saved address.  An email is the sequence of its characters; a@b and b@b
\* stand for addresses like ana@bobs.corn
initialUsers ==
    [u \in Users |-> [email |-> IF u = 1 THEN <<"a", "@", "b">> ELSE <<"b", "@", "b">>,
                      address |-> None]]

\* signup calls that may be in flight at the same time
Signups == {1, 2}

\* the locals of a signup call that has not started
IdleSignup ==
    [pc |-> "idle", email |-> <<>>, normalizedEmail |-> <<>>, status |-> 0, error |-> "", id |-> 0]

\* no seeding run
IdleSeeder == [pc |-> "off", reset |-> FALSE]

Init ==
    /\ clock = 0
    /\ env = DefaultEnv
    /\ products = seedProducts
    /\ users = initialUsers
    /\ orders = {}
    /\ order_items = {}
    /\ trx = None
    /\ reqs = [r \in Reqs |-> IdleReq]
    /\ reader = IdleReader
    /\ signups = [c \in Signups |-> IdleSignup]
    /\ seeder = IdleSeeder
    /\ created = 0
    /\ insertedAt = [i \in OrderIds |-> 0]

Purchase(r, bodies) ==
    \/ \E body \in bodies : Submit(r, body)
    \/ Resolve(r)
    \/ RateLimit(r)
    \/ FetchAddress(r)
    \/ SaveAddress(r)
    \/ TrxInsertOrder(r)
    \/ TrxInsertItems(r)
    \/ TrxCommit(r)
    \/ StorageFails(r)
    \/ Respond(r)
    \/ Forget(r)

\* One caller that submits its calls one after the other, with every request
\* of Bodies.
Next == Tick \/ Purchase(1, Bodies)

Spec == Init /\ [][Next]_vars

\* Calls handled concurrently: the event loop runs the stretches of the
\* handlers of both slots in any order.
NextRace == Tick \/ \E r \in Reqs : Purchase(r, RaceBodies)

SpecRace == Init /\ [][NextRace]_vars

\* A listOrders or getOrder call handled concurrently with purchase calls.
NextRead == Tick \/ Read \/ Purchase(1, RaceBodies)

SpecRead == Init /\ [][NextRead]_vars

\* The server under a limit of three, its orders read back while a seeding
\* run rewrites the catalog.
InitCatalog ==
    /\ clock = 0
    /\ env = EnvOfThree
    /\ products = seedProducts
    /\ users = initialUsers
    /\ orders = {}
    /\ order_items = {}
    /\ trx = None
    /\ reqs = [r \in Reqs |-> IdleReq]
    /\ reader = IdleReader
    /\ signups = [c \in Signups |-> IdleSignup]
    /\ seeder = IdleSeeder
    /\ created = 0
    /\ insertedAt = [i \in OrderIds |-> 0]

NextCatalog ==
    \/ Tick
    \/ Read
    \/ Purchase(1, CatalogBodies)
    \/ \E rows \in Batches : upsertProducts(rows)

SpecCatalog == InitCatalog /\ [][NextCatalog]_vars

\* texts of the two variables of the environment: unset, not a number, zero,
\* negative, positive integers, and two texts of which parseInt reads a prefix
EnvTexts == {"", "abc", "0", "-1", "1", "3", "60", "2.9", "7up"}

\* The server started under any setting of the two variables.
InitConfig ==
    /\ clock = 0
    /\ env \in {[DefaultEnv EXCEPT !.PURCHASE_RATE_LIMIT_PER_PRODUCT = l,
                                   !.PURCHASE_RATE_LIMIT_WINDOW_SECONDS = w] :
                   l \in EnvTexts, w \in EnvTexts}
    /\ products = seedProducts
    /\ users = initialUsers
    /\ orders = {}
    /\ order_items = {}
    /\ trx = None
    /\ reqs = [r \in Reqs |-> IdleReq]
    /\ reader = IdleReader
    /\ signups = [c \in Signups |-> IdleSignup]
    /\ seeder = IdleSeeder
    /\ created = 0
    /\ insertedAt = [i \in OrderIds |-> 0]

NextConfig == Tick \/ Purchase(1, RaceBodies)

SpecConfig == InitConfig /\ [][NextConfig]_vars

-----------------------------------------------------------------------------
(* The seeding run, server/seed.ts: main (338-375) runs in a process of its
   own against the database file the server has open.  Each awaited statement
   is a step; a statement that writes waits while a transaction of the server
   holds the write lock. *)

\* randInt(1, 3), the quantity of a seeded line (312)
MaxSeedQty == 3

\* makeShippingAddress(name), a generated address (219-226)
SeedAddress == "addrSeed"

\* (Math.round(Number(n) * 100) / 100).toFixed(2)
asMoneyString(n) == Math_round(n * 100) * 10

\* the seeder at a statement
Seeding(pc) == [seeder EXCEPT !.pc = pc]

\* main starts: initDb finds the tables and a catalog; --reset runs resetAll
SeedStart ==
    /\ seeder.pc = "off"
    /\ \E reset \in BOOLEAN :
          seeder' = [pc |-> IF reset THEN "delItems" ELSE "products", reset |-> reset]
    /\ UNCHANGED <<signups, clock, env, products, users, orders, order_items, trx, reqs, reader, created, insertedAt>>

\* knex('order_items').del() (232)
ResetOrderItems ==
    /\ seeder.pc = "delItems"
    /\ trx = None
    /\ order_items' = {}
    /\ seeder' = Seeding("delOrders")
    /\ UNCHANGED <<signups, clock, env, products, users, orders, trx, reqs, reader, created, insertedAt>>

\* rows of order_items that survive the deletion of the orders outside `kept`:
\* order_id references orders.id ON DELETE CASCADE (part_005 216-217)
CascadeItems(items, kept) == {it \in items : it.order_id \in {o.id : o \in kept}}

\* knex('orders').del() (233): the lines of orders committed since the
\* statement before go with their headers
ResetOrders ==
    /\ seeder.pc = "delOrders"
    /\ trx = None
    /\ orders' = {}
    /\ order_items' = CascadeItems(order_items, {})
    /\ seeder' = Seeding("delProducts")
    /\ UNCHANGED <<signups, clock, env, products, users, trx, reqs, reader, created, insertedAt>>

\* knex('products').del() (234): order_items.product_id references products.id
\* with no ON DELETE action (part_005 218-219), so the statement throws while a
\* line refers to a product, and main's catch ends the run
ResetProducts ==
    /\ seeder.pc = "delProducts"
    /\ trx = None
    /\ IF order_items = {}
       THEN products' = {} /\ seeder' = Seeding("delUsers")
       ELSE products' = products /\ seeder' = Seeding("failed")
    /\ UNCHANGED <<signups, clock, env, users, orders, order_items, trx, reqs, reader, created, insertedAt>>

\* knex('users').del() (235): orders.user_id references users.id ON DELETE
\* CASCADE (part_005 197-198), and the lines follow their orders
ResetUsers ==
    /\ seeder.pc = "delUsers"
    /\ trx = None
    /\ users' = [u \in {} |-> users[u]]
    /\ orders' = {}
    /\ order_items' = CascadeItems(order_items, {})
    /\ seeder' = Seeding("delSequence")
    /\ UNCHANGED <<signups, clock, env, products, trx, reqs, reader, created, insertedAt>>

\* DELETE FROM sqlite_sequence ... (237): the ids start again after the
\* highest id of each table, which NextId computes from the rows
ResetSequence ==
    /\ seeder.pc = "delSequence"
    /\ trx = None
    /\ seeder' = Seeding("products")
    /\ UNCHANGED <<signups, clock, env, products, users, orders, order_items, trx, reqs, reader, created, insertedAt>>

\* upsertProducts(buildProducts(opts.products)) (351-355); no rows, no write
SeedProducts ==
    /\ seeder.pc = "products"
    /\ trx = None
    /\ \E rows \in Batches \cup {<<>>} : products' = MergeRows(products, rows)
    /\ seeder' = Seeding("users")
    /\ UNCHANGED <<signups, clock, env, users, orders, order_items, trx, reqs, reader, created, insertedAt>>

\* the email of the deterministic demo account, demo@bobs.corn (273)
DemoEmail == <<"d", "@", "b">>

\* insert(rows).onConflict('email').merge() for the demo account (271-290):
\* the row of the email takes the new address and keeps its id, a new email
\* gets the next id
MergeUser(table, email, address) ==
    IF \E u \in DOMAIN table : table[u].email = email
    THEN [u \in DOMAIN table |->
            IF table[u].email = email THEN [table[u] EXCEPT !.address = address] ELSE table[u]]
    ELSE LET id == IF DOMAIN table = {} THEN 1
                   ELSE (CHOOSE m \in DOMAIN table : \A u \in DOMAIN table : u <= m) + 1
         IN  [u \in DOMAIN table \cup {id} |->
                IF u = id THEN [email |-> email, address |-> address] ELSE table[u]]

\* upsertUsers(opts.users) with --users=0 (362-364)
SeedUsers ==
    /\ seeder.pc = "users"
    /\ trx = None
    /\ users' = MergeUser(users, DemoEmail, Stringify(SeedAddress))
    /\ seeder' = Seeding("orders")
    /\ UNCHANGED <<signups, clock, env, products, orders, order_items, trx, reqs, reader, created, insertedAt>>

\* the lines of a seeded order (305-320): distinct products of the catalog,
\* each with a quantity of randInt(1, 3), in the order of their ids
RECURSIVE SeedItems(_, _)
SeedItems(chosen, quantity) ==
    IF chosen = {} THEN <<>>
    ELSE LET p == CHOOSE x \in chosen : \A y \in chosen : x.id <= y.id
         IN  <<[product_id |-> p.id, slug |-> p.slug, title |-> p.title,
                price |-> asMoneyString(p.price), quantity |-> quantity[p.id]]>>
             \o SeedItems(chosen \ {p}, quantity)

\* items.reduce((sum, it) => sum + Number(it.price) * it.quantity, 0) (322)
RECURSIVE SeedTotal(_)
SeedTotal(items) ==
    IF items = <<>> THEN 0
    ELSE Head(items).price * Head(items).quantity + SeedTotal(Tail(items))

\* createOrders(1, users), the run of --orders=1 (297-336): a user of the
\* table, lines for some products, and one transaction that inserts the header
\* and the lines.  Nothing is read of the orders the user already has.
SeedOrder ==
    /\ seeder.pc = "orders"
    /\ trx = None
    /\ Cardinality(orders) < MaxOrders
    /\ products # {}
    /\ \E u \in DOMAIN users, chosen \in SUBSET products \ {{}} :
       \E quantity \in [{p.id : p \in chosen} -> 1..MaxSeedQty] :
          LET items == SeedItems(chosen, quantity)
              oid == NextId(orders)
              base == MaxId(order_items)
              row == [id |-> oid, user_id |-> u, total |-> asMoneyString(SeedTotal(items)),
                      shipping_address |->
                          IF users[u].address # None THEN users[u].address
                          ELSE Stringify(SeedAddress),
                      status |-> "paid", created_at |-> CURRENT_TIMESTAMP]
              rows == {[id |-> base + i, order_id |-> oid,
                        product_id |-> items[i].product_id,
                        slug |-> items[i].slug, title |-> items[i].title,
                        price |-> items[i].price,
                        quantity |-> items[i].quantity] : i \in 1..Len(items)}
          IN  /\ orders' = Commit(orders, {row})
              /\ order_items' = Commit(order_items, rows)
              /\ insertedAt' = [insertedAt EXCEPT ![oid] = clock]
    /\ seeder' = Seeding("done")
    /\ UNCHANGED <<signups, clock, env, products, users, trx, reqs, reader, created>>

\* createOrders returns with nothing inserted, the run of --orders=0 (298),
\* and main ends (371-375)
SeedEnd ==
    /\ seeder.pc = "orders"
    /\ seeder' = Seeding("done")
    /\ UNCHANGED <<signups, clock, env, products, users, orders, order_items, trx, reqs, reader, created, insertedAt>>

Seed ==
    \/ SeedStart
    \/ ResetOrderItems
    \/ ResetOrders
    \/ ResetProducts
    \/ ResetUsers
    \/ ResetSequence
    \/ SeedProducts
    \/ SeedUsers
    \/ SeedOrder
    \/ SeedEnd

\* the requests of the server's caller while a seeding run is under way
SeedBodies ==
    {Body(1, <<BySlug("farm-fresh-yellow-kernels", 1)>>, None, FALSE),
     Body(1, <<BySlug("farm-fresh-yellow-kernels", 1)>>, Some("addrA"), TRUE)}

\* The server handles purchases while one seeding run goes through its
\* statements.
NextSeed == Tick \/ Seed \/ Purchase(1, SeedBodies)

SpecSeed == Init /\ [][NextSeed]_vars

-----------------------------------------------------------------------------
(* PUT /api/account/address, accountController.ts 89-118 *)

\* An authenticated user replaces the saved address: one statement (109-111)
\* and the answer (114).  A body that is not an object is answered 400 and
\* writes nothing (99-102).
updateAddress(u, address) ==
    /\ isObject(address)
    /\ u \in DOMAIN users
    /\ users' = UpdateAddress(users, u, address)
    /\ users' # users
    /\ UNCHANGED <<signups, seeder, clock, env, products, orders, order_items, trx, reqs, reader, created, insertedAt>>

\* The address column is free text (part_005 163): besides an absent address
\* and a JSON text, user 1's row may hold a text that is not JSON, left by
\* another writer of the file; the handler guards its JSON.parse for it (236).
InitAddress ==
    /\ clock = 0
    /\ env = DefaultEnv
    /\ products = seedProducts
    /\ users \in {[initialUsers EXCEPT ![1].address = saved] :
                    saved \in {None, Garbage} \cup {Stringify(a) : a \in ProfileAddresses}}
    /\ orders = {}
    /\ order_items = {}
    /\ trx = None
    /\ reqs = [r \in Reqs |-> IdleReq]
    /\ reader = IdleReader
    /\ signups = [c \in Signups |-> IdleSignup]
    /\ seeder = IdleSeeder
    /\ created = 0
    /\ insertedAt = [i \in OrderIds |-> 0]

\* Purchases with and without an address of their own, while the users update
\* their saved addresses.
NextAddress ==
    \/ Tick
    \/ Purchase(1, AddressBodies)
    \/ \E u \in Users, a \in ProfileAddresses : updateAddress(u, a)

SpecAddress == InitAddress /\ [][NextAddress]_vars

-----------------------------------------------------------------------------
(* POST /api/auth/signup, authController.ts 66-104 and routes/auth.ts 9-19 *)

\* the accounts the model lets the table hold
MaxUsers == 4

\* String.prototype.toLowerCase, on the characters the model uses
LowerChar(ch) ==
    CASE ch = "A" -> "a" [] ch = "B" -> "b" [] ch = "C" -> "c" [] OTHER -> ch

toLowerCase(text) == [i \in 1..Len(text) |-> LowerChar(text[i])]

RECURSIVE trimStart(_)
trimStart(text) ==
    IF text # <<>> /\ Head(text) = " " THEN trimStart(Tail(text)) ELSE text

RECURSIVE trimEnd(_)
trimEnd(text) ==
    IF text # <<>> /\ text[Len(text)] = " "
    THEN trimEnd(SubSeq(text, 1, Len(text) - 1)) ELSE text

\* String.prototype.trim
trim(text) == trimEnd(trimStart(text))

\* express-validator's isEmail(): one @ with a name before it and a domain
\* after it, and no white space anywhere; the text is not trimmed first
isEmail(text) ==
    /\ \A i \in 1..Len(text) : text[i] # " "
    /\ Cardinality({i \in 1..Len(text) : text[i] = "@"}) = 1
    /\ text[1] # "@" /\ text[Len(text)] # "@"

\* the email members of the signup bodies: a registered address as stored, in
\* capitals and with a leading blank; a new address in two spellings; a text
\* that is no address
SignupEmails ==
    {<<"a", "@", "b">>, <<"A", "@", "B">>, <<" ", "a", "@", "b">>,
     <<"c", "@", "b">>, <<"C", "@", "b">>, <<"c", "b">>}

\* the call of a slot has answered
SignupAnswered(call, status, error) ==
    [call EXCEPT !.pc = "done", !.status = status, !.error = error]

\* A signup call arrives: validation (69-72), the email is normalized (77) and
\* the lookup is issued (80).  name and password are taken to be valid.
SignupSubmit(c, email) ==
    /\ signups[c].pc = "idle"
    /\ Cardinality(DOMAIN users) < MaxUsers
    /\ signups' = [signups EXCEPT ![c] =
                     IF ~isEmail(email)
                     THEN SignupAnswered([IdleSignup EXCEPT !.email = email], 400, "errors")
                     ELSE [IdleSignup EXCEPT !.pc = "lookup", !.email = email,
                                             !.normalizedEmail = toLowerCase(trim(email))]]
    /\ UNCHANGED <<seeder, clock, env, products, users, orders, order_items, trx, reqs, reader, created, insertedAt>>

\* knex('users').where({ email }).first()
FindByEmail(table, email) == {u \in DOMAIN table : table[u].email = email}

\* The lookup answers (80-83); after it the password is hashed (87).
SignupLookup(c) ==
    /\ signups[c].pc = "lookup"
    /\ signups' = [signups EXCEPT ![c] =
                     IF FindByEmail(users, signups[c].normalizedEmail) # {}
                     THEN SignupAnswered(signups[c], 409, "Email already registered")
                     ELSE [signups[c] EXCEPT !.pc = "hash"]]
    /\ UNCHANGED <<seeder, clock, env, products, users, orders, order_items, trx, reqs, reader, created, insertedAt>>

\* bcrypt.hash answers (87) and the insert is issued (90)
SignupHash(c) ==
    /\ signups[c].pc = "hash"
    /\ signups' = [signups EXCEPT ![c].pc = "insert"]
    /\ UNCHANGED <<seeder, clock, env, products, users, orders, order_items, trx, reqs, reader, created, insertedAt>>

\* a table without the unique index
UniqueViolation_Off(table, email) == FALSE

\* t.string('email').notNullable().unique() (part_005 152): the insert of a
\* second row with the email throws
UniqueViolation(table, email) == \E u \in DOMAIN table : table[u].email = email

\* the id of the next row of the users table
NextUserId(table) ==
    IF DOMAIN table = {} THEN 1
    ELSE (CHOOSE m \in DOMAIN table : \A u \in DOMAIN table : u <= m) + 1

\* The insert answers (90-95): the new row and the 201 (98-100), or the error
\* of the unique index, which the catch hands to next(err) (101-103): 500.
SignupInsert(c) ==
    /\ signups[c].pc = "insert"
    /\ LET call == signups[c]
           id == NextUserId(users)
       IN  IF UniqueViolation(users, call.normalizedEmail)
           THEN /\ signups' = [signups EXCEPT ![c] = SignupAnswered(call, 500, "Server error")]
                /\ users' = users
           ELSE /\ users' = [u \in DOMAIN users \cup {id} |->
                               IF u = id THEN [email |-> call.normalizedEmail, address |-> None]
                               ELSE users[u]]
                /\ signups' = [signups EXCEPT ![c] =
                                 [SignupAnswered(call, 201, "") EXCEPT !.id = id]]
    /\ UNCHANGED <<seeder, clock, env, products, orders, order_items, trx, reqs, reader, created, insertedAt>>

\* The answered call is over; its slot takes the next call.
SignupForget(c) ==
    /\ signups[c].pc = "done"
    /\ signups' = [signups EXCEPT ![c] = IdleSignup]
    /\ UNCHANGED <<seeder, clock, env, products, users, orders, order_items, trx, reqs, reader, created, insertedAt>>

signup(c) ==
    \/ \E email \in SignupEmails : SignupSubmit(c, email)
    \/ SignupLookup(c)
    \/ SignupHash(c)
    \/ SignupInsert(c)
    \/ SignupForget(c)

\* Signup calls handled concurrently.
NextSignup == \E c \in Signups : signup(c)

SpecSignup == Init /\ [][NextSignup]_vars

-----------------------------------------------------------------------------
(* Vocabulary of the properties, read off the tables and the calls directly *)

ProductIds == {p.id : p \in products}

\* committed quantity of product p on the lines of order o
QtyInOrder(o, p) ==
    SumQuantity({oi \in order_items : oi.order_id = o.id /\ oi.product_id = p})

\* committed orders of user u that hold product p
OrdersOf(u, p) ==
    {o \in orders : o.user_id = u /\ \E oi \in order_items : oi.order_id = o.id /\ oi.product_id = p}

\* the instant (ms) that the timestamp created_at names
Instant(created_at) == created_at * 1000

\* quantity of p on u's committed orders whose createdAt lies in the window
\* [now - W, now], now an instant in ms
WindowQty(u, p, now) ==
    SumQuantity({oi \in order_items :
        /\ oi.product_id = p
        /\ \E o \in orders : /\ o.id = oi.order_id
                             /\ o.user_id = u
                             /\ now - windowSeconds * 1000 <= Instant(o.created_at)
                             /\ Instant(o.created_at) <= now})

\* time (ms) from the insertion of the committed order o to now
Elapsed(o) == clock - insertedAt[o.id]

RECURSIVE LineQty(_, _)
\* quantity of p on the lines of a request, all lines of p added up
LineQty(lines, p) ==
    IF lines = <<>> THEN 0
    ELSE LineQty(Tail(lines), p) + (IF Head(lines).product_id = p THEN Head(lines).quantity ELSE 0)

LineProducts(lines) == {lines[i].product_id : i \in 1..Len(lines)}

StatusOf(req) == IF req.pc = "done" THEN req.res[1].status ELSE 0
Succeeded(req) == StatusOf(req) = 201
Rejected(req) == StatusOf(req) = 429
Failed(req) == StatusOf(req) = 500

\* the committed order a call created
OrderOf(req) == CHOOSE o \in orders : o.id = req.orderId

\* the step is the one in which call r leaves position pc without a storage error
Leaves(r, pc) == reqs[r].pc = pc /\ reqs'[r].pc # pc /\ ~Failed(reqs'[r])

Distance(a, b) == IF a >= b THEN a - b ELSE b - a

-----------------------------------------------------------------------------
\* C1: in every reachable state, for every user U and product P, the quantity
\* of P on U's committed orders whose createdAt lies in [now - W, now] is at
\* most the limit N.
C1_WindowLimit ==
    \A u \in Users, p \in ProductIds : WindowQty(u, p, clock) <= limitPerProduct

\* C2: of two calls of one user for one product that are handled concurrently
\* and of which only one fits under the limit, never both are answered 201:
\* two calls answered 201 whose quantities of a product together exceed N
\* committed more than W seconds apart.
C2_OnlyOneSucceeds ==
    \A r1, r2 \in Reqs :
        (/\ r1 # r2
         /\ Succeeded(reqs[r1]) /\ Succeeded(reqs[r2])
         /\ reqs[r1].userId = reqs[r2].userId)
        => \A p \in ProductIds :
              (/\ LineQty(reqs[r1].orderItems, p) > 0
               /\ LineQty(reqs[r2].orderItems, p) > 0
               /\ LineQty(reqs[r1].orderItems, p) + LineQty(reqs[r2].orderItems, p)
                      > limitPerProduct)
              => Distance(OrderOf(reqs[r1]).created_at, OrderOf(reqs[r2]).created_at)
                     > windowSeconds

-----------------------------------------------------------------------------
\* the product a 429 answer names
Named(req) == req.res[1].product[1]

\* the call asks for one unit of one product under the limit 1 per 60 seconds
OneUnitPerMinute(req) ==
    /\ limitPerProduct = 1
    /\ windowSeconds = 60
    /\ Len(req.orderItems) = 1
    /\ req.orderItems[1].quantity = 1

\* C3: with N = 1 and W = 60 and one user buying one unit of one product in
\* sequence: a purchase with no earlier order of the product is not rejected;
\* a purchase t seconds after the only earlier one, 0 < t < 60, is answered
\* 429 with prior quantity 1, requested quantity 1 and limit 1; a purchase
\* 61 seconds or more after every earlier one is not rejected.
C3_MinuteScenario ==
    [][\A r \in Reqs :
        (Leaves(r, "ratelimit") /\ OneUnitPerMinute(reqs[r]))
        => LET u == reqs[r].userId
               p == reqs[r].orderItems[1].product_id
               mine == OrdersOf(u, p)
           IN /\ (mine = {}) => ~Rejected(reqs'[r])
              /\ (\E o \in mine : /\ mine = {o}
                                  /\ QtyInOrder(o, p) = 1
                                  /\ 0 < Elapsed(o)
                                  /\ Elapsed(o) < 60000)
                 => /\ Rejected(reqs'[r])
                    /\ Named(reqs'[r]).id = p
                    /\ Named(reqs'[r]).recentPurchasedQuantity = 1
                    /\ Named(reqs'[r]).requestedQuantity = 1
                    /\ reqs'[r].res[1].limit = 1
              /\ (\A o \in mine : Elapsed(o) >= 61000)
                 => reqs'[r].pc \in {"address", "save", "trx"}
      ]_vars

\* a unit bought at t = 0 and the same product bought again by the same user
\* at t = 61
C3_Witness ==
    \E r \in Reqs :
        /\ Succeeded(reqs[r])
        /\ OneUnitPerMinute(reqs[r])
        /\ insertedAt[reqs[r].orderId] = 61000
        /\ \E o \in OrdersOf(reqs[r].userId, reqs[r].orderItems[1].product_id) :
              insertedAt[o.id] = 0

\* C4 as stated: an earlier order made exactly W seconds before the call
\* still counts, so a call that with it exceeds N is answered 429; a call made
\* more than W seconds after every earlier order, asking for at most N of
\* each product, is accepted.
C4_AsStated ==
    [][\A r \in Reqs :
        Leaves(r, "ratelimit")
        => LET u == reqs[r].userId
               lines == reqs[r].orderItems
           IN /\ (\E p \in LineProducts(lines) : \E o \in OrdersOf(u, p) :
                     /\ Elapsed(o) = windowSeconds * 1000
                     /\ QtyInOrder(o, p) + LineQty(lines, p) > limitPerProduct)
                 => Rejected(reqs'[r])
              /\ (\A p \in LineProducts(lines) :
                     /\ LineQty(lines, p) <= limitPerProduct
                     /\ \A o \in OrdersOf(u, p) : Elapsed(o) > windowSeconds * 1000)
                 => reqs'[r].pc \in {"address", "save", "trx"}
      ]_vars

\* C4, amended: timestamps are whole seconds and the window is closed at its
\* old end.  An earlier order whose createdAt is exactly W seconds before the
\* second of the call, or that was made exactly W seconds before the call,
\* still counts, so a call that with it exceeds N is answered 429.  A call
\* asking for at most N of each product is accepted when every earlier order
\* has a createdAt more than W seconds before the second of the call, which
\* is so whenever W + 1 seconds or more have passed.
C4_InclusiveBoundary ==
    [][\A r \in Reqs :
        Leaves(r, "ratelimit")
        => LET u == reqs[r].userId
               lines == reqs[r].orderItems
           IN /\ (\E p \in LineProducts(lines) : \E o \in OrdersOf(u, p) :
                     /\ \/ o.created_at = CURRENT_TIMESTAMP - windowSeconds
                        \/ Elapsed(o) = windowSeconds * 1000
                     /\ QtyInOrder(o, p) + LineQty(lines, p) > limitPerProduct)
                 => Rejected(reqs'[r])
              /\ (\A p \in LineProducts(lines) :
                     /\ LineQty(lines, p) <= limitPerProduct
                     /\ \A o \in OrdersOf(u, p) :
                           \/ CURRENT_TIMESTAMP - o.created_at > windowSeconds
                           \/ Elapsed(o) >= (windowSeconds + 1) * 1000)
                 => reqs'[r].pc \in {"address", "save", "trx"}
      ]_vars

\* a call rejected more than W and less than W + 1 seconds after the only
\* earlier order of the product, whose createdAt is exactly W seconds before
\* the second of the call
C4_Witness ==
    \E r \in Reqs :
        /\ Rejected(reqs[r])
        /\ Named(reqs[r]).recentPurchasedQuantity >= 1
        /\ \A o \in OrdersOf(reqs[r].userId, Named(reqs[r]).id) :
              /\ o.created_at = (reqs[r].now \div 1000) - windowSeconds
              /\ reqs[r].now - insertedAt[o.id] > windowSeconds * 1000

-----------------------------------------------------------------------------
\* C5: a call in which any one product would exceed the limit is answered
\* 429, whatever its other lines, and a call changes neither table orders nor
\* table order_items nor any saved address before it has passed the check, so
\* a rejected call has changed none of them.
C5_RejectionWithoutEffect ==
    [][\A r \in Reqs :
        /\ (reqs[r].pc \in {"idle", "resolve", "ratelimit"} /\ reqs'[r] # reqs[r])
           => UNCHANGED <<orders, order_items, users>>
        /\ (/\ Leaves(r, "ratelimit")
            /\ \E p \in LineProducts(reqs[r].orderItems) :
                  WindowQty(reqs[r].userId, p, clock) + LineQty(reqs[r].orderItems, p)
                      > limitPerProduct)
           => /\ Rejected(reqs'[r])
              /\ UNCHANGED <<orders, order_items, users>>
      ]_vars

\* a call with a line of one product, never bought, and a line of another,
\* bought before, was rejected: no row of the first product exists
C5_Witness ==
    \E r \in Reqs :
        /\ Rejected(reqs[r])
        /\ Len(reqs[r].orderItems) = 2
        /\ reqs[r].orderItems[1].product_id # Named(reqs[r]).id
        /\ reqs[r].orderItems[2].product_id = Named(reqs[r]).id
        /\ LineQty(reqs[r].orderItems, reqs[r].orderItems[1].product_id) <= limitPerProduct
        /\ \A oi \in order_items : oi.product_id # reqs[r].orderItems[1].product_id
        /\ orders # {}

\* C6: the quantities of the lines of one product, referenced by slug or by
\* id, are added up before the check: no call passes the check, and no order
\* is committed, with lines of one product that add up to more than N, and
\* the 429 reports the sum as the requested quantity.
C6_LinesSummed ==
    /\ \A o \in orders, p \in ProductIds : QtyInOrder(o, p) <= limitPerProduct
    /\ \A r \in Reqs :
          /\ (reqs[r].pc \in {"address", "save", "trx", "trxItems", "trxCommit", "respond"}
                \/ Succeeded(reqs[r]))
             => \A p \in ProductIds : LineQty(reqs[r].orderItems, p) <= limitPerProduct
          /\ Rejected(reqs[r])
             => Named(reqs[r]).requestedQuantity
                    = LineQty(reqs[r].orderItems, Named(reqs[r]).id)

\* two lines of quantity 1 for one product, one by slug and one by id, no
\* earlier purchase: rejected with requested quantity 2, and no order exists
C6_Witness ==
    \E r \in Reqs :
        /\ Rejected(reqs[r])
        /\ Len(reqs[r].items) = 2
        /\ reqs[r].items[1].hasSlug /\ reqs[r].items[2].hasProductId
        /\ reqs[r].orderItems[1].product_id = reqs[r].orderItems[2].product_id
        /\ reqs[r].orderItems[1].quantity = 1 /\ reqs[r].orderItems[2].quantity = 1
        /\ Named(reqs[r]).requestedQuantity = 2
        /\ Named(reqs[r]).recentPurchasedQuantity = 0
        /\ orders = {} /\ order_items = {}

\* the item names a product of the catalog
Resolvable(it) ==
    \E p \in products :
        IF it.hasSlug /\ it.slug # "" THEN p.slug = it.slug ELSE p.id = it.productId

\* C7: a call with an item whose product is not in the catalog is answered
\* 400 "Product not found" naming the reference of the first such item,
\* whatever its other items, and no call has changed table orders or table
\* order_items by then.
C7_ProductNotFound ==
    [][\A r \in Reqs :
        /\ (reqs[r].pc \in {"idle", "resolve"} /\ reqs'[r] # reqs[r])
           => UNCHANGED <<orders, order_items>>
        /\ (/\ Leaves(r, "resolve")
            /\ \E i \in 1..Len(reqs[r].items) : ~Resolvable(reqs[r].items[i]))
           => /\ StatusOf(reqs'[r]) = 400
              /\ reqs'[r].res[1].error = "Product not found"
              /\ \E i \in 1..Len(reqs[r].items) :
                    /\ ~Resolvable(reqs[r].items[i])
                    /\ \A j \in 1..(i - 1) : Resolvable(reqs[r].items[j])
                    /\ reqs'[r].res[1].ref = Some(Identifier(reqs[r].items[i]))
      ]_vars

\* a call with a valid first item and an unknown second one was answered 400
\* naming the second, and both tables are empty
C7_Witness ==
    \E r \in Reqs :
        /\ StatusOf(reqs[r]) = 400
        /\ reqs[r].res[1].error = "Product not found"
        /\ Len(reqs[r].items) = 2
        /\ Resolvable(reqs[r].items[1])
        /\ ~Resolvable(reqs[r].items[2])
        /\ reqs[r].res[1].ref = Some(Identifier(reqs[r].items[2]))
        /\ orders = {} /\ order_items = {}

-----------------------------------------------------------------------------
\* the committed lines of order id
LinesOf(id) == {oi \in order_items : oi.order_id = id}

\* price times quantity over a set of lines
RECURSIVE LinesTotal(_)
LinesTotal(rows) ==
    IF rows = {} THEN 0
    ELSE LET x == CHOOSE y \in rows : TRUE
         IN  x.price * x.quantity + LinesTotal(rows \ {x})

RECURSIVE ItemsTotal(_)
\* price times quantity over the items of an OrderResponse
ItemsTotal(items) ==
    IF items = <<>> THEN 0
    ELSE Head(items).price * Head(items).quantity + ItemsTotal(Tail(items))

\* C8: header and lines become visible together.  Whatever a statement reads,
\* every order header has lines and they add up to the header's total, and
\* every line has its header; the headers that listOrders or getOrder read
\* in their first query have all their lines at the second; and every order
\* of a listOrders or getOrder answer carries lines that add up to its total.
C8_HeaderAndLinesTogether ==
    /\ \A o \in orders : LinesOf(o.id) # {} /\ LinesTotal(LinesOf(o.id)) = o.total
    /\ \A oi \in order_items : \E o \in orders : o.id = oi.order_id
    /\ reader.pc \in {"listItems", "getItems"}
       => \A i \in 1..Len(reader.rows) :
             /\ LinesOf(reader.rows[i].id) # {}
             /\ LinesTotal(LinesOf(reader.rows[i].id)) = reader.rows[i].total
    /\ (reader.pc = "done" /\ reader.status = 200)
       => \A i \in 1..Len(reader.result) :
             /\ reader.result[i].items # <<>>
             /\ ItemsTotal(reader.result[i].items) = reader.result[i].total

\* listOrders is between its two queries, and an order of its user was
\* committed after the first
C8_Witness ==
    /\ reader.pc = "listItems"
    /\ \E o \in orders :
          /\ o.user_id = reader.userId
          /\ \A i \in 1..Len(reader.rows) : reader.rows[i].id # o.id

\* C9: a call whose header insert, line insert or commit fails is answered
\* 500 "Server error" and that step leaves table orders and table order_items
\* as they are, with no transaction of the call open; no earlier step of a call
\* changes them either, so they are as they were before the call.
C9_FailedCommitLeavesNothing ==
    [][\A r \in Reqs :
        /\ (reqs[r].pc \in {"idle", "resolve", "ratelimit", "address", "save", "trx", "trxItems"}
              /\ reqs'[r] # reqs[r])
           => UNCHANGED <<orders, order_items>>
        /\ (reqs[r].pc \in {"trx", "trxItems", "trxCommit"} /\ reqs'[r].pc = "done")
           => /\ StatusOf(reqs'[r]) = 500
              /\ reqs'[r].res[1].error = "Server error"
              /\ UNCHANGED <<orders, order_items>>
              /\ (trx' = None \/ trx'[1].owner # r)
      ]_vars

\* a call failed after its header was inserted as order 2: the one earlier
\* order and its lines are all there is
C9_Witness ==
    \E r \in Reqs :
        /\ Failed(reqs[r])
        /\ reqs[r].orderId = 2
        /\ \A o \in orders : o.id = 1
        /\ \A oi \in order_items : oi.order_id = 1
        /\ orders # {}

\* C10: the committed orders are as many as the calls answered 201, or
\* committed and about to be; a call answered 201 returns the id of exactly
\* one order, an order of its user.
C10_OneOrderPerSuccess ==
    /\ Cardinality(orders) = created + Cardinality({r \in Reqs : reqs[r].pc = "respond"})
    /\ \A r \in Reqs :
          Succeeded(reqs[r])
          => Cardinality({o \in orders : /\ o.id = reqs[r].res[1].order[1].id
                                         /\ o.user_id = reqs[r].userId}) = 1

\* two calls were answered 201 and one 429: two orders
C10_Witness ==
    /\ created = 2
    /\ Cardinality(orders) = 2
    /\ \E r \in Reqs : Rejected(reqs[r])

-----------------------------------------------------------------------------
\* the whole number of cents nearest to an amount
Cents(amount) == IF amount % 10 >= 5 THEN amount \div 10 + 1 ELSE amount \div 10

\* an amount of cents written with two decimals
Decimal2(cents) == cents * 10

RECURSIVE CentsOfLines(_)
\* unit price in cents times quantity, over a set of committed lines
CentsOfLines(rows) ==
    IF rows = {} THEN 0
    ELSE LET x == CHOOSE y \in rows : TRUE
         IN  Cents(x.price) * x.quantity + CentsOfLines(rows \ {x})

\* the order a successful call answers with
OrderAnswered(req) == req.res[1].order[1]

\* C11: the total of an order is the exact sum, over its lines, of the unit
\* price in whole cents times the quantity, as an amount of two decimals.  The
\* price a line takes at resolution is the catalog price in whole cents; the
\* order a commit adds has that sum as its total, and so has the answer.
C11_TotalIsExactSum ==
    [][\A r \in Reqs :
          /\ (Leaves(r, "resolve") /\ reqs'[r].pc = "ratelimit")
             => \A i \in 1..Len(reqs'[r].orderItems) :
                   \E p \in products :
                      /\ p.id = reqs'[r].orderItems[i].product_id
                      /\ reqs'[r].orderItems[i].price = Decimal2(Cents(p.price))
          /\ \A o \in orders' \ orders :
                o.total = Decimal2(CentsOfLines({oi \in order_items' : oi.order_id = o.id}))
          /\ (Succeeded(reqs'[r]) /\ ~Succeeded(reqs[r]))
             => OrderAnswered(reqs'[r]).total =
                  Decimal2(CentsOfLines(LinesOf(reqs'[r].orderId)))]_vars

\* an order of one unit at 0.10 and one unit at 0.20 is committed with the
\* total 0.30
C11_Witness ==
    \E o \in orders :
       /\ o.total = 300
       /\ {<<oi.price, oi.quantity>> : oi \in LinesOf(o.id)} = {<<100, 1>>, <<200, 1>>}
       /\ \E r \in Reqs : Succeeded(reqs[r]) /\ reqs[r].orderId = o.id

-----------------------------------------------------------------------------
\* getOrder has answered the owner of the order that call r created
ReadBack(r) ==
    /\ Succeeded(reqs[r])
    /\ reader.pc = "done" /\ reader.op = "getOrder" /\ reader.status = 200
    /\ reader.orderId = reqs[r].orderId
    /\ reader.userId = reqs[r].userId

\* an OrderResponse without its createdAt
Undated(order) == [order EXCEPT !.createdAt = 0]

\* C12: the order a successful purchase answers with mirrors the persisted
\* state: getOrder for the returned id by the same user yields the same id,
\* total, status, createdAt, shippingAddress and items, and the answered
\* createdAt is the committed createdAt that the window query reads.
C12_SnapshotMirrorsStored ==
    \A r \in Reqs :
       /\ ReadBack(r) => reader.result[1] = OrderAnswered(reqs[r])
       /\ (Succeeded(reqs[r]) /\ reqs[r].orderId \in {o.id : o \in orders})
          => OrderAnswered(reqs[r]).createdAt = DateParse(OrderOf(reqs[r]).created_at)

\* every field but createdAt is the same in the answer and in the read
SnapshotMirrorsStoredUndated ==
    \A r \in Reqs : ReadBack(r) => Undated(reader.result[1]) = Undated(OrderAnswered(reqs[r]))

-----------------------------------------------------------------------------
\* the lines of an answered order, each as <<product, slug, title, price, quantity>>
AnsweredLines(order) ==
    {<<order.items[i].productId, order.items[i].slug, order.items[i].title,
       order.items[i].price, order.items[i].quantity>> : i \in 1..Len(order.items)}

\* the committed lines of order id, in the same shape
StoredLines(id) ==
    {<<oi.product_id, oi.slug, oi.title, oi.price, oi.quantity>> : oi \in LinesOf(id)}

\* C13: line snapshots are decoupled from the catalog.  A step that changes a
\* product's price or title leaves every order header and every order line as
\* it was, and whatever the catalog holds by then, each order that getOrder or
\* listOrders answers carries the total and the lines (product, slug, title,
\* price, quantity) that were committed with it.
C13_SnapshotsDecoupled ==
    [][/\ products' # products => (orders' = orders /\ order_items' = order_items)
       /\ (reader'.pc = "done" /\ reader'.status = 200)
          => \A i \in 1..Len(reader'.result) :
                \E o \in orders' :
                   /\ o.id = reader'.result[i].id
                   /\ reader'.result[i].total = o.total
                   /\ Len(reader'.result[i].items) = Cardinality(LinesOf(o.id))
                   /\ AnsweredLines(reader'.result[i]) = StoredLines(o.id)]_vars

\* an order is answered with a line whose title and price are no longer those
\* of the product in the catalog
C13_Witness ==
    /\ reader.pc = "done" /\ reader.status = 200
    /\ \E i \in 1..Len(reader.result) :
          \E j \in 1..Len(reader.result[i].items) :
             \E p \in products :
                /\ p.id = reader.result[i].items[j].productId
                /\ p.price # reader.result[i].items[j].price
                /\ p.title # reader.result[i].items[j].title

-----------------------------------------------------------------------------
\* the item list is empty, or some item has neither slug nor productId, or
\* some quantity is not a positive integer
BadItems(items) ==
    \/ items = <<>>
    \/ \E i \in 1..Len(items) : ~items[i].hasSlug /\ ~items[i].hasProductId
    \/ \E i \in 1..Len(items) : ~(items[i].quantity \in Nat \ {0})

\* shippingAddress is there and is not an object, or saveAddress is there and
\* reads as none of true, false, 1, 0
BadAddressMembers(req) ==
    \/ req.shippingAddress # None /\ req.shippingAddress[1] \notin Addresses
    \/ req.saveAddressText \notin {"undefined", "true", "false", "1", "0"}

\* call r is answered 400 in the step that takes it in, and the step changes
\* nothing else
RejectedAsInvalid(r) ==
    /\ reqs'[r].pc = "done"
    /\ StatusOf(reqs'[r]) = 400
    /\ UNCHANGED <<products, users, orders, order_items, trx, created>>

\* C14 as stated: a request is rejected with InvalidRequest before any lookup
\* or write exactly when its items are bad, and proceeds to product resolution
\* otherwise.
C14_AsStated ==
    [][\A r \in Reqs :
          Leaves(r, "idle")
          => /\ RejectedAsInvalid(r) <=> BadItems(reqs'[r].items)
             /\ ~BadItems(reqs'[r].items) => reqs'[r].pc = "resolve"]_vars

\* C14: a request is rejected with InvalidRequest (400) before any product
\* lookup or write exactly when its items are bad or one of its two address
\* members has the wrong type; every other request proceeds to resolution.
C14_InvalidRequest ==
    [][\A r \in Reqs :
          Leaves(r, "idle")
          => LET bad == BadItems(reqs'[r].items) \/ BadAddressMembers(reqs'[r])
             IN  /\ RejectedAsInvalid(r) <=> bad
                 /\ ~bad => reqs'[r].pc = "resolve" /\ reqs'[r].res = None]_vars

\* a request with good items is rejected for its shippingAddress alone
C14_Witness ==
    \E r \in Reqs :
       /\ reqs[r].pc = "done" /\ StatusOf(reqs[r]) = 400
       /\ ~BadItems(reqs[r].items)
       /\ reqs[r].shippingAddress = Some(StreetText)
       /\ reqs[r].res[1].error = "validation errors"

-----------------------------------------------------------------------------
\* quantity of p on u's committed orders whose stored createdAt is not older
\* than W seconds by the clock of the store
CommittedInWindow(u, p) ==
    SumQuantity({oi \in order_items :
        /\ oi.product_id = p
        /\ \E o \in orders : /\ o.id = oi.order_id
                             /\ o.user_id = u
                             /\ o.created_at + windowSeconds >= CURRENT_TIMESTAMP})

\* the step answers call r with 429
Rejects(r) == Rejected(reqs'[r]) /\ ~Rejected(reqs[r])

\* C15: every RateLimitExceeded answer carries the configured limit N and
\* window W and names one product of the request, with requestedQuantity the
\* quantity of that product summed over the lines of the request and
\* recentPurchasedQuantity the quantity of it that the user has committed in
\* the window at the time of the check, and recent + requested > N.
C15_RateLimitAnswer ==
    [][\A r \in Reqs :
          Rejects(r)
          => LET res == reqs'[r].res[1]
                 lines == reqs[r].orderItems
             IN  /\ res.status = 429
                 /\ res.limit = limitPerProduct
                 /\ res.windowSeconds = windowSeconds
                 /\ res.product # None
                 /\ res.product[1].id \in LineProducts(lines)
                 /\ \E i \in 1..Len(lines) : /\ lines[i].product_id = res.product[1].id
                                             /\ lines[i].slug = res.product[1].slug
                 /\ res.product[1].requestedQuantity = LineQty(lines, res.product[1].id)
                 /\ res.product[1].recentPurchasedQuantity =
                       CommittedInWindow(reqs[r].userId, res.product[1].id)
                 /\ res.product[1].recentPurchasedQuantity + res.product[1].requestedQuantity
                       > limitPerProduct]_vars

\* a call of two lines of one product, which the user bought once in the
\* window, is answered with requestedQuantity 2 and recentPurchasedQuantity 1
C15_Witness ==
    \E r \in Reqs :
       /\ Rejected(reqs[r])
       /\ Len(reqs[r].orderItems) = 2
       /\ Named(reqs[r]).requestedQuantity = 2
       /\ Named(reqs[r]).recentPurchasedQuantity = 1
       /\ reqs[r].res[1].limit = 1 /\ reqs[r].res[1].windowSeconds = 60

-----------------------------------------------------------------------------
\* what a getOrder call of user u for order id holds when it is answered 404:
\* the status and the message, and nothing of any order
NotFoundFor(u, id) ==
    [pc |-> "done", op |-> "getOrder", userId |-> u, orderId |-> id, rows |-> <<>>,
     status |-> 404, error |-> "Order not found", result |-> <<>>]

\* C16: getOrder returns the order only when it exists and belongs to the
\* caller.  When no order has the id, and when the order of the id belongs to
\* another user, the call is answered with one and the same 404 that carries
\* no field of any order; otherwise it is answered 200 with the order of that
\* id and that user.
C16_OwnerOnly ==
    [][(reader' # reader /\ reader'.op = "getOrder")
       => LET u == reader'.userId
              id == reader'.orderId
              owned == {o \in orders : o.id = id /\ o.user_id = u}
          IN  /\ (reader.pc \in {"idle", "done"} /\ owned = {})
                 => reader' = NotFoundFor(u, id)
              /\ (reader.pc \in {"idle", "done"} /\ owned # {})
                 => /\ reader'.pc = "getItems" /\ reader'.status = 0
                    /\ reader'.result = <<>>
                    /\ {reader'.rows[i] : i \in 1..Len(reader'.rows)} = owned
              /\ reader.pc = "getItems"
                 => /\ reader'.pc = "done" /\ reader'.status = 200
                    /\ Len(reader'.result) = 1
                    /\ reader'.result[1].id = id
                    /\ reader'.result[1].userId = u
                    /\ owned # {}]_vars

\* a user's getOrder for the id of another user's order was answered 404
C16_Witness ==
    /\ reader = NotFoundFor(reader.userId, reader.orderId)
    /\ \E o \in orders : o.id = reader.orderId /\ o.user_id # reader.userId

-----------------------------------------------------------------------------
-----------------------------------------------------------------------------
\* the texts that are a positive integer in decimal digits, with their values
PositiveIntegers == [t \in {"1", "3", "60"} |-> IF t = "1" THEN 1 ELSE IF t = "3" THEN 3 ELSE 60]

\* the texts of a variable that is missing or empty, not a number, zero,
\* negative
Unusable == {"", "abc", "0", "-1"}

\* the effective value follows the text of its variable
Effective(value, text, default) ==
    /\ value > 0
    /\ text \in DOMAIN PositiveIntegers => value = PositiveIntegers[text]
    /\ text \in Unusable => value = default

-----------------------------------------------------------------------------
\* quantity, over all products, on u's committed orders whose createdAt lies
\* in the 60 seconds up to now (ms)
ClientMinuteQty(u, now) ==
    SumQuantity({oi \in order_items :
        \E o \in orders : /\ o.id = oi.order_id
                          /\ o.user_id = u
                          /\ now - 60000 <= Instant(o.created_at)
                          /\ Instant(o.created_at) <= now})

\* C19: under the default configuration the policy is a maximum of 1 corn per
\* client per minute: the quantity a user has committed, over all products,
\* within the trailing 60 seconds never exceeds 1.
C19_OneCornPerClientPerMinute ==
    (limitPerProduct = 1 /\ windowSeconds = 60)
    => \A u \in Users : ClientMinuteQty(u, clock) <= 1

-----------------------------------------------------------------------------
\* some product of call r's request has prior + requested > N, prior the
\* user's committed quantity in the window at this moment
OverLimit(r) ==
    \E p \in LineProducts(reqs[r].orderItems) :
       CommittedInWindow(reqs[r].userId, p) + LineQty(reqs[r].orderItems, p) > limitPerProduct

\* C20: the evaluator accepts exactly when every requested product passes.  A
\* validated call whose products all resolved is answered 429 at the check if
\* and only if prior + requested > N for some requested product; a call with
\* prior + requested <= N for every product goes on to the address and the
\* transaction, and no call is answered 429 anywhere but at the check.
C20_AcceptsIffAllPass ==
    [][\A r \in Reqs :
          /\ Leaves(r, "ratelimit")
             => /\ Rejected(reqs'[r]) <=> OverLimit(r)
                /\ ~OverLimit(r) => (reqs'[r].pc \in {"address", "save", "trx"}
                                     /\ reqs'[r].res = None)
          /\ Rejects(r) => (reqs[r].pc = "ratelimit" /\ OverLimit(r))]_vars

\* a call for one unit of a product was accepted at the limit, prior 0 and
\* requested 1, while the user holds another product inside the window
C20_Witness ==
    \E r \in Reqs :
       /\ Succeeded(reqs[r])
       /\ limitPerProduct = 1
       /\ LineProducts(reqs[r].orderItems) = {2}
       /\ LineQty(reqs[r].orderItems, 2) = 1
       /\ \E o \in orders : /\ o.user_id = reqs[r].userId
                            /\ o.id < reqs[r].orderId
                            /\ QtyInOrder(o, 1) = 1
                            /\ o.created_at + windowSeconds >= OrderOf(reqs[r]).created_at

-----------------------------------------------------------------------------
(* C21 *)

\* C21: the ledger is append-only: no step of any operation (purchase, the
\* reads, the address update, seeding) removes or changes a committed order
\* header or order line; every step leaves the rows there were in the tables.
C21_AppendOnly == [][orders \subseteq orders' /\ order_items \subseteq order_items']_vars

-----------------------------------------------------------------------------
(* C22 *)

\* what a stored address text yields when it is read back: the object of a
\* JSON text, nothing for an absent or an unparsable one
Readable(saved) == IF saved # None /\ saved[1] = "json" THEN Some(saved[2]) ELSE None

\* C22: the shipping address of an order is resolved so: a call that carries
\* an address object uses exactly that; a call without one uses the user's
\* saved address, and no address when none is saved or the saved text does not
\* parse, going on to the order instead of failing on it; the order header
\* stores the address so resolved, and no address when there is none.
C22_AddressResolution ==
    [][\A r \in Reqs :
         LET req == reqs[r]
             after == reqs'[r]
         IN  /\ (req.pc = "ratelimit" /\ after.pc \notin {"ratelimit", "done"}
                   /\ req.shippingAddress # None)
                  => /\ after.shippingAddressToUse = req.shippingAddress
                     /\ after.pc \in {"save", "trx"}
             /\ (req.pc = "address" /\ after.pc \notin {"address", "done"})
                  => /\ after.shippingAddressToUse = Readable(users[req.userId].address)
                     /\ after.pc \in {"save", "trx"}
             /\ (req.pc \in {"save", "trx", "trxItems", "trxCommit"} /\ after.pc # "done")
                  => after.shippingAddressToUse = req.shippingAddressToUse
             /\ (req.pc = "trxCommit" /\ after.pc = "respond")
                  => \E o \in orders' \ orders :
                        /\ o.id = req.orderId
                        /\ o.shipping_address =
                             IF req.shippingAddressToUse # None
                             THEN Stringify(req.shippingAddressToUse[1]) ELSE None
                        /\ req.shippingAddress # None
                             => o.shipping_address = Stringify(req.shippingAddress[1])]_vars

\* a call without an address, of a user whose saved text does not parse, was
\* answered 201 and its order is stored with no address
C22_Witness ==
    /\ reqs[1].pc = "done"
    /\ reqs[1].res # None /\ reqs[1].res[1].status = 201
    /\ reqs[1].shippingAddress = None
    /\ reqs[1].userId = 1
    /\ users[1].address = Garbage
    /\ \E o \in orders : o.id = reqs[1].orderId /\ o.shipping_address = None

-----------------------------------------------------------------------------
(* C23 *)

\* the caller asked for the address to be saved: saveAddress true (or 1)
Requested(req) == req.saveAddressText \in {"true", "1"}

\* C23: a purchase writes the saved profile address only when the caller
\* asked for it (saveAddress) and supplied an address with the request, and
\* the saved address then is the supplied one; every other step of a purchase,
\* and so a purchase without saveAddress or one rejected by validation,
\* product lookup or rate limit, leaves every saved address as it was.
C23_SavesOnlySuppliedOnRequest ==
    [][\A r \in Reqs :
         LET req == reqs[r]
         IN  reqs'[r] # req =>
               IF req.pc = "save" /\ reqs'[r].pc = "trx"
               THEN /\ Requested(req)
                    /\ req.shippingAddress # None
                    /\ users'[req.userId].address = Stringify(req.shippingAddress[1])
               ELSE users' = users]_vars

-----------------------------------------------------------------------------
(* C24 *)

\* the lines a step adds to the ledger that are lines of product p on an
\* order of user u
AddedLinesOf(u, p) ==
    {oi \in order_items' \ order_items :
        /\ oi.product_id = p
        /\ \E o \in orders' : o.id = oi.order_id /\ o.user_id = u}

\* a request line for q units of product p, as the windowed check reads it
AskFor(p, q) == <<[product_id |-> p, quantity |-> q]>>

\* C24: rate limiting is isolated per user and per product: a step that
\* commits lines to the ledger, none of them a line of product P on an order
\* of user A, changes neither the outcome (accepted or rejected) that a
\* purchase of any quantity of P by A would get at that moment nor the prior
\* quantity that would be reported to A; other users' purchases and A's
\* purchases of other products do not count against A's P.
C24_Isolation ==
    [][order_items' # order_items =>
         \A u \in Users, p \in ProductIds, q \in 1..MaxQty :
            AddedLinesOf(u, p) = {} =>
               /\ (Offending(u, AskFor(p, q), CURRENT_TIMESTAMP) = {})'
                     = (Offending(u, AskFor(p, q), CURRENT_TIMESTAMP) = {})
               /\ PurchasedInWindow(u, p, CURRENT_TIMESTAMP, windowSeconds)'
                     = PurchasedInWindow(u, p, CURRENT_TIMESTAMP, windowSeconds)]_vars

\* user 2 holds the limit of product 1 in the window, and user 1's purchase of
\* product 1 was accepted all the same
C24_Witness ==
    /\ CommittedInWindow(2, 1) >= limitPerProduct
    /\ reqs[1].pc = "done" /\ StatusOf(reqs[1]) = 201
    /\ reqs[1].userId = 1
    /\ LineProducts(reqs[1].orderItems) = {1}
    /\ CommittedInWindow(1, 1) = LineQty(reqs[1].orderItems, 1)

-----------------------------------------------------------------------------
(* C25 *)

\* every line of the call asks for a product of which the user's committed
\* purchases were all created at least `seconds` seconds ago
LastPurchasesOlderThan(r, seconds) ==
    \A o \in orders, oi \in order_items :
        (/\ o.user_id = reqs[r].userId
         /\ oi.order_id = o.id
         /\ oi.product_id \in LineProducts(reqs[r].orderItems))
        => clock - o.created_at * 1000 >= seconds * 1000

\* the call asks for no more than the limit of any product
AsksWithinLimit(r) ==
    \A p \in LineProducts(reqs[r].orderItems) :
        LineQty(reqs[r].orderItems, p) <= limitPerProduct

\* the windowed check of call r passes in this step
PassesRateLimit(r) ==
    /\ ~Rejected(reqs'[r])
    /\ reqs'[r].pc \in {"address", "save", "trx"}

\* C25 as stated: once W seconds have passed since the user's last committed
\* purchase of P, a purchase of no more than N units of P is accepted,
\* whatever was rejected in between.
C25_AsStated ==
    [][\A r \in Reqs :
          (Leaves(r, "ratelimit") /\ AsksWithinLimit(r)
             /\ LastPurchasesOlderThan(r, windowSeconds))
          => PassesRateLimit(r)]_vars

\* C25: rejected attempts carry no penalty: once W + 1 seconds or more have
\* passed since the createdAt of the user's last committed purchase of P, a
\* purchase of no more than N units of P is accepted, however many attempts
\* were rejected in between; at exactly W seconds the earlier purchase still
\* counts.
C25_NoPenalty ==
    [][\A r \in Reqs :
          (Leaves(r, "ratelimit") /\ AsksWithinLimit(r)
             /\ LastPurchasesOlderThan(r, windowSeconds + 1))
          => PassesRateLimit(r)]_vars

\* user 1 bought product 1, was rejected for it inside the window, and was
\* accepted for it again W + 1 seconds or more after the first purchase
C25_Witness ==
    /\ Rejected(reqs[2]) /\ reqs[2].userId = 1
    /\ LineProducts(reqs[2].orderItems) = {1}
    /\ Succeeded(reqs[1]) /\ reqs[1].userId = 1
    /\ LineProducts(reqs[1].orderItems) = {1}
    /\ \E o \in orders, oi \in order_items :
          /\ o.id # reqs[1].orderId /\ o.user_id = 1
          /\ oi.order_id = o.id /\ oi.product_id = 1
          /\ o.created_at * 1000 <= reqs[2].now
          /\ reqs[2].now < OrderOf(reqs[1]).created_at * 1000
          /\ OrderOf(reqs[1]).created_at >= o.created_at + windowSeconds + 1

-----------------------------------------------------------------------------
(* C26 *)

\* the step is the seeder's insert of an order
SeederInserts == seeder.pc = "orders" /\ orders' # orders

\* C26: the seeder's createOrders preserves the limit as every writer of order
\* rows does: after it has inserted an order, every user of the table still
\* holds at most N units of each product of the catalog on orders created in
\* the trailing window of W seconds.
C26_SeederKeepsLimit ==
    [][SeederInserts =>
         \A u \in DOMAIN users', p \in {x.id : x \in products'} :
            CommittedInWindow(u, p)' <= limitPerProduct']_vars

-----------------------------------------------------------------------------
(* C27 *)

\* the tables are well-formed: every order has a line, every line belongs to
\* exactly one order of the table, every quantity is a positive integer
WellFormedLedger ==
    /\ \A o \in orders : \E oi \in order_items : oi.order_id = o.id
    /\ \A oi \in order_items : Cardinality({o \in orders : o.id = oi.order_id}) = 1
    /\ \A oi \in order_items : oi.quantity \in Nat \ {0}

\* the lines a step adds refer to products of the catalog of that moment
NewLinesOfCatalog ==
    \A oi \in order_items' \ order_items : oi.product_id \in {p.id : p \in products}

\* C27: structural integrity holds in every reachable state: every committed
\* order has at least one line, every line belongs to exactly one existing
\* order, every line quantity is a positive integer, and every line refers to
\* a product that was in the catalog when its order was created.
C27_StructuralIntegrity == []WellFormedLedger /\ [][NewLinesOfCatalog]_vars

-----------------------------------------------------------------------------
(* C28 *)

\* small and capital of one letter, or the same character
SameLetter(x, y) ==
    \/ x = y
    \/ {x, y} \in {{"a", "A"}, {"b", "B"}, {"c", "C"}, {"d", "D"}}

RECURSIVE Unpadded(_)
\* a text without the blanks around it
Unpadded(text) ==
    IF text = <<>> THEN text
    ELSE IF Head(text) = " " THEN Unpadded(Tail(text))
    ELSE IF text[Len(text)] = " " THEN Unpadded(SubSeq(text, 1, Len(text) - 1))
    ELSE text

\* the two emails are one address once trimmed and lower-cased
SameAddress(e1, e2) ==
    LET a == Unpadded(e1)
        b == Unpadded(e2)
    IN  /\ Len(a) = Len(b)
        /\ \A i \in 1..Len(a) : SameLetter(a[i], b[i])

\* the email is the address of a row of the users table
Registered(email) == \E u \in DOMAIN users : SameAddress(users[u].email, email)

\* no two rows of the users table hold the same address
NoSharedEmail ==
    \A u, v \in DOMAIN users : u # v => ~SameAddress(users[u].email, users[v].email)

\* the step is the one in which signup call c answers
SignupAnswers(c) == signups[c].pc # "done" /\ signups'[c].pc = "done"

-----------------------------------------------------------------------------
(* C29 *)

\* the step is the one in which purchase call r answers
Answers(r) == reqs[r].pc # "done" /\ reqs'[r].pc = "done"

\* the request of call r fails validation
Invalid(req) == BadItems(req.items) \/ BadAddressMembers(req)

\* the request names a product the catalog does not have
HasUnresolved(req) == \E i \in 1..Len(req.items) : ~Resolvable(req.items[i])

\* the request has a line of a product of the catalog that alone is over the
\* limit
HasOverLimit(req) ==
    \E i \in 1..Len(req.items) :
        Resolvable(req.items[i]) /\ req.items[i].quantity > limitPerProduct

\* C29: the failures of a purchase have a fixed precedence: an invalid
\* request is answered 400 at validation, before product resolution; a valid
\* request with an unresolved reference is answered ProductNotFound at
\* resolution, before the rate-limit check, also when another line is over the
\* limit; 429 is answered only by the rate-limit check of a valid, fully
\* resolved request, and before any address save or order write: every step of
\* a call up to and including its rate-limit check leaves the users, orders
\* and order_items tables as they were.
C29_Precedence ==
    [][\A r \in Reqs :
          /\ (Answers(r) /\ ~Failed(reqs'[r]))
             => LET req == reqs'[r]
                IN  /\ Invalid(req)
                       => /\ reqs[r].pc = "idle"
                          /\ StatusOf(req) = 400
                          /\ req.res[1].error # "Product not found"
                    /\ (~Invalid(req) /\ HasUnresolved(req))
                       => /\ reqs[r].pc = "resolve"
                          /\ StatusOf(req) = 400
                          /\ req.res[1].error = "Product not found"
                    /\ Rejected(req)
                       => /\ reqs[r].pc = "ratelimit"
                          /\ ~Invalid(req) /\ ~HasUnresolved(req)
                    /\ StatusOf(req) \in {400, 429}
                       => /\ req.orderId = 0
                          /\ req.shippingAddressToUse = None
          /\ (reqs[r].pc \in {"idle", "resolve", "ratelimit"} /\ reqs'[r] # reqs[r])
             => UNCHANGED <<users, orders, order_items, trx>>]_vars

\* a valid request with a line over the limit and, after it, a line of an
\* unknown product was answered ProductNotFound
C29_Witness ==
    /\ reqs[1].pc = "done"
    /\ ~Invalid(reqs[1])
    /\ Len(reqs[1].items) = 2
    /\ Resolvable(reqs[1].items[1]) /\ reqs[1].items[1].quantity > limitPerProduct
    /\ ~Resolvable(reqs[1].items[2])
    /\ StatusOf(reqs[1]) = 400
    /\ reqs[1].res[1].error = "Product not found"

====
